---- MODULE Spec2Model ----
(***************************************************************************)
(* Model of the Nepali text pipelines (src/NLP_PIPELINEs): the token-level *)
(* NepaliTextPreprocessor and the text-level NepaliTextCleaner.            *)
(*                                                                         *)
(* A Python str is a sequence of Unicode code points (integers).  An       *)
(* Optional[str] is a sequence holding zero strings (None) or one string.  *)
(* The character classes of the regular expressions are modelled on the    *)
(* ASCII and Devanagari blocks plus the Unicode white space characters.    *)
(***************************************************************************)
EXTENDS Integers, Sequences, FiniteSets, TLC

(***************************************************************************)
(* Bounds of the model.                                                    *)
(***************************************************************************)
\* longest token / text enumerated exhaustively over the alphabet
MaxLen == 2
\* most configuration options overridden at once
MaxOverrides == 1
\* longest token list enumerated over the token pool
MaxTokens == 3

(***************************************************************************)
(* Optional values.                                                        *)
(***************************************************************************)
None == << >>
Some(s) == << s >>

(***************************************************************************)
(* Character classes.                                                      *)
(***************************************************************************)
\* [0-9]
IsAsciiDigit(c) == c \in 48..57
\* [०-९]
IsDevanagariDigit(c) == c \in 2406..2415
\* \d: a Unicode decimal digit (ASCII, Arabic-Indic, Devanagari)
IsUnicodeDigit(c) == IsAsciiDigit(c) \/ c \in 1632..1641 \/ IsDevanagariDigit(c)
\* [\d०-९]
IsDigit(c) == IsUnicodeDigit(c) \/ IsDevanagariDigit(c)
\* [a-zA-Z]
IsLatin(c) == c \in 65..90 \/ c \in 97..122
\* [ऀ-ॿ]
IsDevanagari(c) == c \in 2304..2431
\* \s, and the characters str.strip() removes
IsSpace(c) ==
    \/ c \in 9..13
    \/ c \in 28..32
    \/ c \in {133, 160, 5760, 8232, 8233, 8239, 8287, 12288}
    \/ c \in 8192..8202
\* Devanagari letters (general category Lo) and digits
IsDevanagariWord(c) ==
    \/ c \in 2308..2361
    \/ c \in {2365, 2384}
    \/ c \in 2392..2401
    \/ c \in 2406..2415
    \/ c \in 2417..2431
\* \w
IsWord(c) == IsLatin(c) \/ IsUnicodeDigit(c) \/ c = 95 \/ IsDevanagariWord(c)
\* [^\w\sऀ-ॿ]
IsSpecial(c) == ~IsWord(c) /\ ~IsSpace(c) /\ ~IsDevanagari(c)

(***************************************************************************)
(* Sequence helpers.                                                       *)
(***************************************************************************)
\* s[i:j] of Python, 1-based inclusive bounds
Slice(s, i, j) == IF j < i THEN << >> ELSE SubSeq(s, i, j)

\* the smallest and the largest element of a non-empty set of integers
Min(S) == CHOOSE x \in S : \A y \in S : x <= y
Max(S) == CHOOSE x \in S : \A y \in S : y <= x

\* the concatenation f[lo] \o ... \o f[hi] of the strings of a function f
RECURSIVE Flatten(_, _, _)
Flatten(f, lo, hi) ==
    IF lo > hi THEN << >>
    ELSE IF lo = hi THEN f[lo]
    ELSE LET mid == (lo + hi) \div 2
         IN  Flatten(f, lo, mid) \o Flatten(f, mid + 1, hi)

\* the first position >= i whose character does not satisfy the class, i.e.
\* the end of the greedy match of class* at i
SpanDigits(s, i) ==
    IF i > Len(s) THEN i
    ELSE CHOOSE j \in i..(Len(s) + 1) :
            /\ j > Len(s) \/ ~IsDigit(s[j])
            /\ \A k \in i..(j - 1) : IsDigit(s[k])
SpanSpace(s, i) ==
    IF i > Len(s) THEN i
    ELSE CHOOSE j \in i..(Len(s) + 1) :
            /\ j > Len(s) \/ ~IsSpace(s[j])
            /\ \A k \in i..(j - 1) : IsSpace(s[k])
SpanDigitsOrComma(s, i) ==
    IF i > Len(s) THEN i
    ELSE CHOOSE j \in i..(Len(s) + 1) :
            /\ j > Len(s) \/ ~(IsDigit(s[j]) \/ s[j] = 44)
            /\ \A k \in i..(j - 1) : (IsDigit(s[k]) \/ s[k] = 44)

\* the end of the match of an optional literal character c at i
SkipOpt(s, i, c) == IF i <= Len(s) /\ s[i] = c THEN i + 1 ELSE i

\* whether the literal w occurs in s at position i
StartsWithAt(s, i, w) ==
    /\ i + Len(w) - 1 <= Len(s)
    /\ \A k \in 1..Len(w) : s[i + k - 1] = w[k]

\* str.strip()
LStrip(s) == Slice(s, SpanSpace(s, 1), Len(s))
RStrip(s) ==
    LET S == { j \in 1..Len(s) : ~IsSpace(s[j]) }
    IN  IF S = {} THEN << >> ELSE SubSeq(s, 1, Max(S))
Strip(s) == RStrip(LStrip(s))

\* str.replace(old, new) for a single character old and a string new
ReplaceChar(s, old, new) ==
    Flatten([k \in 1..Len(s) |-> IF s[k] = old THEN new ELSE << s[k] >>], 1, Len(s))

\* str.lower() on the blocks modelled: only A-Z have a lower case form
Lower(s) ==
    Flatten([k \in 1..Len(s) |-> << (IF s[k] \in 65..90 THEN s[k] + 32 ELSE s[k]) >>],
            1, Len(s))

(***************************************************************************)
(* unicodedata.normalize('NFC', .) on the ASCII and Devanagari blocks and   *)
(* the white space characters: canonical decomposition, canonical ordering *)
(* of the combining marks, canonical composition.                          *)
(***************************************************************************)
\* the eight composition-excluded letters U+0958..U+095F decompose; EN QUAD and
\* EM QUAD are singletons for EN SPACE and EM SPACE
NfcDecomposeChar(c) ==
    CASE c = 8192 -> << 8194 >>
      [] c = 8193 -> << 8195 >>
      [] c = 2392 -> << 2325, 2364 >>
      [] c = 2393 -> << 2326, 2364 >>
      [] c = 2394 -> << 2327, 2364 >>
      [] c = 2395 -> << 2332, 2364 >>
      [] c = 2396 -> << 2337, 2364 >>
      [] c = 2397 -> << 2338, 2364 >>
      [] c = 2398 -> << 2347, 2364 >>
      [] c = 2399 -> << 2351, 2364 >>
      [] OTHER -> << c >>
NfcDecompose(s) == Flatten([k \in 1..Len(s) |-> NfcDecomposeChar(s[k])], 1, Len(s))

\* canonical combining class: nukta 7, virama 9, udatta and accents 230,
\* anudatta 220, everything else a starter
CombiningClass(c) ==
    CASE c = 2364 -> 7
      [] c = 2381 -> 9
      [] c = 2386 -> 220
      [] c \in {2385, 2387, 2388} -> 230
      [] OTHER -> 0

\* the place that the canonical ordering gives to the character at k: a
\* starter stays, the marks of a run of combining marks are sorted by class,
\* marks of one class keeping their order
NfcRun(s, k) ==
    (1 + Max({0} \cup { j \in 1..k : CombiningClass(s[j]) = 0 }))
    ..(Min({ Len(s) + 1 } \cup { j \in k..Len(s) : CombiningClass(s[j]) = 0 }) - 1)
NfcOrderedPosition(s, k) ==
    IF CombiningClass(s[k]) = 0 THEN k
    ELSE Min(NfcRun(s, k))
         + Cardinality({ j \in NfcRun(s, k) :
                \/ CombiningClass(s[j]) < CombiningClass(s[k])
                \/ CombiningClass(s[j]) = CombiningClass(s[k]) /\ j < k })
NfcReorder(s) ==
    Flatten([p \in 1..Len(s) |->
                IF CombiningClass(s[p]) = 0 THEN << s[p] >>
                ELSE << s[CHOOSE k \in NfcRun(s, p) : NfcOrderedPosition(s, k) = p] >>],
            1, Len(s))

\* the three primary composites of the block: a letter followed by nukta
NfcCompose(s) ==
    Flatten([k \in 1..Len(s) |->
                IF s[k] \in {2344, 2352, 2355} /\ k < Len(s) /\ s[k + 1] = 2364
                THEN << s[k] + 1 >>
                ELSE IF s[k] = 2364 /\ k > 1 /\ s[k - 1] \in {2344, 2352, 2355}
                THEN << >>
                ELSE << s[k] >>],
            1, Len(s))

NFC(s) == NfcCompose(NfcReorder(NfcDecompose(s)))

(***************************************************************************)
(* NepaliTextPreprocessor: the number recognizer.                          *)
(***************************************************************************)
\* the end of the match of [\d०-९]+\.?[\d०-९]*\s* at 1, or 0 without a match
NumberHead(s) ==
    LET a == SpanDigits(s, 1)
    IN  IF a = 1 THEN 0 ELSE SpanSpace(s, SpanDigits(s, SkipOpt(s, a, 46)))

\* [\d०-९]+\.?[\d०-९]*\s*%
PercentagePattern(s) ==
    LET e == NumberHead(s) IN e # 0 /\ e = Len(s) /\ s[e] = 37

\* the end of (?:रु\.?|Rs\.?) at 1, or 0
CurrencyPrefix(s) ==
    IF StartsWithAt(s, 1, << 2352, 2369 >>) \/ StartsWithAt(s, 1, << 82, 115 >>)
    THEN SkipOpt(s, 3, 46) ELSE 0

\* (?:रु\.?|Rs\.?)\s*[\d०-९,]+\.?[\d०-९]*
CurrencyPattern(s) ==
    LET p == CurrencyPrefix(s)
        a == SpanSpace(s, p)
        b == SpanDigitsOrComma(s, a)
    IN  p # 0 /\ b > a /\ SpanDigits(s, SkipOpt(s, b, 46)) = Len(s) + 1

\* किमी|मिटर|लिटर|kg|km|m|l|cm|mm
Units ==
    { << 2325, 2367, 2350, 2368 >>, << 2350, 2367, 2335, 2352 >>,
      << 2354, 2367, 2335, 2352 >>, << 107, 103 >>, << 107, 109 >>,
      << 109 >>, << 108 >>, << 99, 109 >>, << 109, 109 >> }

\* [\d०-९]+\.?[\d०-९]*\s*(?:किमी|मिटर|लिटर|kg|km|m|l|cm|mm)
MeasurementPattern(s) ==
    LET e == NumberHead(s) IN e # 0 /\ Slice(s, e, Len(s)) \in Units

\* (?:19|20|२०)[\d०-९]{2}
YearPattern(s) ==
    /\ Len(s) = 4
    /\ SubSeq(s, 1, 2) \in { << 49, 57 >>, << 50, 48 >>, << 2408, 2406 >> }
    /\ IsDigit(s[3]) /\ IsDigit(s[4])

\* [\d०-९]+\.[\d०-९]+
DecimalPattern(s) ==
    LET a == SpanDigits(s, 1)
    IN  /\ a > 1 /\ a <= Len(s) /\ s[a] = 46
        /\ SpanDigits(s, a + 1) > a + 1
        /\ SpanDigits(s, a + 1) = Len(s) + 1

\* (?:,[\d०-९]{3})* from position i to the end of s
RECURSIVE CommaGroups(_, _)
CommaGroups(s, i) ==
    \/ i = Len(s) + 1
    \/ /\ i + 3 <= Len(s)
       /\ s[i] = 44 /\ IsDigit(s[i + 1]) /\ IsDigit(s[i + 2]) /\ IsDigit(s[i + 3])
       /\ CommaGroups(s, i + 4)

\* [\d०-९]{1,3}(?:,[\d०-९]{3})*
GroupedPattern(s) ==
    LET a == SpanDigits(s, 1)
    IN  \E e \in 2..4 : e <= a /\ CommaGroups(s, e)

\* [\d०-९]+
IntegerPattern(s) == s # << >> /\ SpanDigits(s, 1) = Len(s) + 1

\* pattern.fullmatch(s) for the i-th entry of self.number_patterns
NumberPatternMatches(i, s) ==
    CASE i = 1 -> PercentagePattern(s)
      [] i = 2 -> CurrencyPattern(s)
      [] i = 3 -> MeasurementPattern(s)
      [] i = 4 -> YearPattern(s)
      [] i = 5 -> DecimalPattern(s)
      [] i = 6 -> GroupedPattern(s)
      [] i = 7 -> IntegerPattern(s)

\* the indices of self.number_patterns of the preprocessor
number_patterns == 1..7

\* faulty variant: a pattern found anywhere in the token suffices
is_number_token_search(cfg, token) ==
    IF ~cfg.preserve_numbers THEN FALSE
    ELSE LET t == Strip(token)
         IN  \E i \in number_patterns : \E a \in 1..Len(t) : \E b \in a..Len(t) :
                NumberPatternMatches(i, SubSeq(t, a, b))

is_number_token(cfg, token) ==
    IF ~cfg.preserve_numbers THEN FALSE
    ELSE \E i \in number_patterns : NumberPatternMatches(i, Strip(token))

(***************************************************************************)
(* NepaliTextPreprocessor: configuration and compiled patterns.            *)
(***************************************************************************)
default_preprocessing_config ==
    [ preserve_numbers |-> TRUE,
      normalize_unicode |-> TRUE,
      remove_whitespace |-> TRUE,
      standardize_punctuation |-> TRUE,
      remove_urls |-> TRUE,
      remove_emails |-> TRUE,
      language_filtering |-> TRUE,
      length_filtering |-> TRUE,
      min_token_length |-> 1,
      max_token_length |-> 50,
      remove_stopwords |-> FALSE,
      normalize_devanagari_numerals |-> FALSE,
      remove_duplicates |-> TRUE,
      remove_excessive_special_chars |-> TRUE ]

\* self.nepali_stopwords, as code points
nepali_stopwords ==
    { << 2309, 2348 >>, << 2309, 2327, 2366, 2337, 2367 >>,
      << 2309, 2333, 2376 >>, << 2309, 2325, 2381, 2360, 2352 >>,
      << 2309, 2354, 2327 >>, << 2310, 2336 >>, << 2310, 2332, 2325, 2379 >>,
      << 2310, 2342, 2367 >>, << 2310, 2340, 2381, 2350 >>,
      << 2310, 2347, 2370 >>, << 2310, 2347, 2370, 2354, 2366, 2312 >>,
      << 2310, 2347, 2376, 2354, 2366, 2312 >>,
      << 2310, 2347, 2381, 2344, 2379 >>, << 2310, 2347, 2381, 2344, 2376 >>,
      << 2310, 2351, 2379 >>, << 2313, 2342, 2366, 2361, 2352, 2339 >>,
      << 2313, 2344 >>, << 2313, 2344, 2325, 2379 >>,
      << 2313, 2344, 2354, 2375 >>, << 2313, 2346 >>,
      << 2313, 2361, 2366, 2305, 2354, 2366, 2312 >>,
      << 2319, 2313, 2335, 2376 >>, << 2319, 2325 >>,
      << 2319, 2325, 2342, 2350 >>, << 2324, 2306 >>, << 2325, 2340, 2376 >>,
      << 2325, 2350, 32, 2360, 2375, 32, 2325, 2350 >>,
      << 2325, 2360, 2352, 2368 >>, << 2325, 2360, 2376 >>,
      << 2325, 2360, 2376, 2354, 2375 >>, << 2325, 2361, 2366, 2305 >>,
      << 2325, 2361, 2366, 2305, 2348, 2366, 2335 >>,
      << 2325, 2361, 2367, 2354, 2375, 2325, 2366, 2361, 2368, 2306 >>,
      << 2325, 2361, 2367, 2354, 2381, 2351, 2376 >>,
      << 2325, 2361, 2368, 2306 >>, << 2325, 2366 >>, << 2325, 2367 >>,
      << 2325, 2367, 2344 >>, << 2325, 2367, 2344, 2349, 2344, 2375 >>,
      << 2325, 2369, 2344, 2376 >>, << 2325, 2369, 2352, 2366 >>,
      << 2325, 2371, 2346, 2351, 2366 >>, << 2325, 2375 >>,
      << 2325, 2375, 2357, 2354 >>, << 2325, 2375, 2361, 2367 >>,
      << 2325, 2375, 2361, 2368 >>, << 2325, 2379 >>,
      << 2325, 2379, 2361, 2368 >>, << 2325, 2381, 2352, 2350, 2358, 2307 >>,
      << 2327, 2319 >>, << 2327, 2352, 2367 >>, << 2327, 2352, 2368 >>,
      << 2327, 2352, 2375, 2325, 2366 >>, << 2327, 2352, 2375, 2325, 2379 >>,
      << 2327, 2352, 2375, 2352 >>, << 2327, 2352, 2380, 2306 >>,
      << 2327, 2352, 2381, 2331 >>, << 2327, 2352, 2381, 2331, 2369 >>,
      << 2327, 2352, 2381, 2342, 2376 >>, << 2327, 2352, 2381, 2344 >>,
      << 2327, 2352, 2381, 2344, 2369 >>,
      << 2327, 2352, 2381, 2344, 2369, 2346, 2352, 2381, 2331 >>,
      << 2327, 2352, 2381, 2344, 2375 >>,
      << 2327, 2352, 2381, 2351, 2380, 2306 >>, << 2327, 2376, 2352 >>,
      << 2330, 2366, 2305, 2337, 2376 >>, << 2330, 2366, 2352 >>,
      << 2330, 2366, 2354, 2375 >>,
      << 2330, 2366, 2361, 2344, 2369, 2361, 2369, 2344, 2381, 2331 >>,
      << 2330, 2366, 2361, 2344, 2381, 2331, 2369 >>,
      << 2330, 2366, 2361, 2367, 2319 >>, << 2331 >>, << 2331, 2344, 2381 >>,
      << 2331, 2369 >>, << 2331, 2376, 2344 >>, << 2331, 2380, 2305 >>,
      << 2331, 2380, 2306 >>, << 2332, 2340, 2366, 2340, 2340, 2376 >>,
      << 2332, 2348 >>, << 2332, 2348, 2325, 2367 >>,
      << 2332, 2360, 2325, 2379 >>, << 2332, 2360, 2348, 2366, 2335 >>,
      << 2332, 2360, 2350, 2366 >>, << 2332, 2360, 2354, 2366, 2312 >>,
      << 2332, 2360, 2354, 2375 >>, << 2332, 2360, 2381, 2340, 2376 >>,
      << 2332, 2360, 2381, 2340, 2379 >>,
      << 2332, 2360, 2381, 2340, 2379, 2360, 2369, 2325, 2376 >>,
      << 2332, 2361, 2366, 2305 >>, << 2332, 2366, 2344 >>,
      << 2332, 2366, 2361, 2367, 2352 >>, << 2332, 2369, 2344 >>,
      << 2332, 2375 >>, << 2332, 2379 >>, << 2336, 2368, 2325 >>, << 2340 >>,
      << 2340, 2340, 2381, 2325, 2366, 2354 >>, << 2340, 2341, 2366 >>,
      << 2340, 2342, 2344, 2369, 2360, 2366, 2352 >>,
      << 2340, 2346, 2366, 2311, 2305, 2325, 2379 >>,
      << 2340, 2346, 2366, 2312, 2306 >>, << 2340, 2352 >>, << 2340, 2354 >>,
      << 2340, 2366, 2346, 2344, 2367 >>, << 2340, 2367, 2344, 2368 >>,
      << 2340, 2367, 2344, 2368, 2361, 2352, 2370 >>,
      << 2340, 2367, 2344, 2368, 2361, 2352, 2370, 2325, 2379 >>,
      << 2340, 2367, 2344, 2368, 2361, 2352, 2370, 2354, 2366, 2312 >>,
      << 2340, 2367, 2344, 2368, 2361, 2352, 2370, 2354, 2375 >>,
      << 2340, 2367, 2350, 2368 >>, << 2340, 2367, 2352 >>, << 2340, 2368 >>,
      << 2340, 2368, 2344 >>,
      << 2340, 2369, 2352, 2369, 2344, 2381, 2340, 2376 >>,
      << 2340, 2375, 2360, 2381, 2352, 2379 >>,
      << 2340, 2381, 2351, 2360, 2325, 2366, 2352, 2339 >>,
      << 2340, 2381, 2351, 2360, 2346, 2331, 2367 >>,
      << 2340, 2381, 2351, 2360, 2350, 2366 >>,
      << 2340, 2381, 2351, 2360, 2376, 2354, 2375 >>,
      << 2340, 2381, 2351, 2361, 2366, 2305 >>, << 2340, 2381, 2351, 2379 >>,
      << 2341, 2367, 2319 >>, << 2341, 2367, 2319, 2344 >>,
      << 2341, 2367, 2319, 2344, 2344, 2381 >>, << 2341, 2367, 2351, 2379 >>,
      << 2342, 2367, 2319 >>,
      << 2342, 2367, 2344, 2369, 2349, 2319, 2325, 2379 >>,
      << 2342, 2367, 2344, 2369, 2361, 2369, 2344, 2381, 2331 >>,
      << 2342, 2369, 2312 >>, << 2342, 2375, 2326 >>,
      << 2342, 2375, 2326, 2367 >>,
      << 2342, 2375, 2326, 2367, 2344, 2381, 2331 >>,
      << 2342, 2375, 2326, 2367, 2351, 2379 >>, << 2342, 2375, 2326, 2375 >>,
      << 2342, 2375, 2326, 2375, 2325, 2379 >>,
      << 2342, 2375, 2326, 2375, 2352 >>, << 2342, 2375, 2326, 2381, 2344 >>,
      << 2342, 2379, 2358, 2381, 2352, 2379 >>,
      << 2342, 2379, 2360, 2381, 2352, 2379 >>, << 2343, 2375, 2352, 2376 >>,
      << 2344 >>, << 2344, 2332, 2367, 2325, 2376 >>,
      << 2344, 2340, 2381, 2352 >>, << 2344, 2351, 2366, 2305 >>,
      << 2344, 2367 >>, << 2344, 2367, 2350, 2381, 2340, 2367 >>,
      << 2344, 2367, 2350, 2381, 2344 >>,
      << 2344, 2367, 2350, 2381, 2344, 2366, 2344, 2369, 2360, 2366, 2352 >>,
      << 2344, 2367, 2352, 2381, 2342, 2367, 2359, 2381, 2335 >>,
      << 2344, 2376 >>, << 2344, 2380 >>, << 2346, 2325, 2381, 2325, 2366 >>,
      << 2346, 2325, 2381, 2325, 2376 >>, << 2346, 2331, 2367 >>,
      << 2346, 2331, 2367, 2354, 2381, 2354, 2379 >>, << 2346, 2335, 2325 >>,
      << 2346, 2344, 2367 >>, << 2346, 2352, 2381, 2331 >>,
      << 2346, 2352, 2381, 2341, 2381, 2351, 2379 >>,
      << 2346, 2352, 2381, 2351, 2366, 2346, 2381, 2340 >>,
      << 2346, 2361, 2367, 2354, 2375 >>, << 2346, 2361, 2367, 2354, 2379 >>,
      << 2346, 2361, 2367, 2354, 2381, 2351, 2376 >>,
      << 2346, 2366, 2305, 2330 >>, << 2346, 2366, 2305, 2330, 2380, 2306 >>,
      << 2346, 2370, 2352, 2381, 2357 >>, << 2346, 2381, 2352, 2340, 2367 >>,
      << 2346, 2381, 2352, 2340, 2381, 2351, 2375, 2325 >>,
      << 2346, 2381, 2354, 2360 >>, << 2347, 2375, 2352, 2367 >>,
      << 2348, 2344, 2375 >>, << 2348, 2344, 2381, 2342 >>,
      << 2348, 2344, 2381, 2344 >>, << 2348, 2352, 2369 >>,
      << 2348, 2366, 2335, 2379 >>, << 2348, 2366, 2352, 2375 >>,
      << 2348, 2366, 2361, 2367, 2352 >>, << 2348, 2366, 2361, 2375, 2325 >>,
      << 2348, 2368, 2330 >>, << 2348, 2368, 2330, 2350, 2366 >>,
      << 2349, 2319 >>, << 2349, 2319, 2325, 2379 >>, << 2349, 2344 >>,
      << 2349, 2344, 2375 >>, << 2349, 2344, 2375, 2352 >>,
      << 2349, 2344, 2381, 2331, 2344, 2381 >>,
      << 2349, 2344, 2381, 2331, 2369 >>, << 2349, 2344, 2381, 2342, 2366 >>,
      << 2349, 2344, 2381, 2344, 2369, 2349, 2351, 2379 >>,
      << 2349, 2344, 2381, 2344, 2375 >>, << 2349, 2352 >>,
      << 2349, 2367, 2340, 2381, 2352 >>,
      << 2349, 2367, 2340, 2381, 2352, 2368 >>, << 2350 >>,
      << 2350, 2354, 2366, 2312 >>, << 2350, 2366 >>,
      << 2350, 2366, 2340, 2381, 2352 >>, << 2350, 2366, 2341, 2367 >>,
      << 2350, 2369, 2326, 2381, 2351 >>, << 2350, 2375, 2352, 2379 >>,
      << 2351, 2340, 2367 >>, << 2351, 2341, 2379, 2330, 2367, 2340 >>,
      << 2351, 2342, 2367 >>, << 2351, 2342, 2381, 2351, 2346, 2367 >>,
      << 2351, 2360 >>, << 2351, 2360, 2325, 2379 >>,
      << 2351, 2360, 2346, 2331, 2367 >>,
      << 2351, 2360, 2348, 2366, 2361, 2375, 2325 >>,
      << 2351, 2360, 2352, 2368 >>, << 2351, 2360, 2379 >>,
      << 2351, 2360, 2381, 2340, 2379 >>, << 2351, 2361, 2366, 2305 >>,
      << 2351, 2361, 2366, 2305, 2360, 2350, 2381, 2350 >>, << 2351, 2366 >>,
      << 2351, 2368 >>, << 2351, 2379 >>, << 2352 >>, << 2352, 2361, 2368 >>,
      << 2352, 2361, 2375, 2325, 2366 >>, << 2352, 2361, 2375, 2325, 2379 >>,
      << 2352, 2366, 2326, 2375 >>, << 2352, 2366, 2326, 2381, 2331 >>,
      << 2352, 2366, 2350, 2381, 2352, 2379 >>, << 2352, 2370, 2346 >>,
      << 2354, 2327, 2349, 2327 >>, << 2354, 2366, 2312 >>,
      << 2354, 2366, 2327, 2367 >>, << 2354, 2375 >>,
      << 2357, 2352, 2367, 2346, 2352, 2367 >>,
      << 2357, 2366, 2360, 2381, 2340, 2357, 2350, 2366 >>,
      << 2357, 2366, 2361, 2375, 2325 >>,
      << 2357, 2367, 2352, 2369, 2342, 2381, 2343 >>,
      << 2357, 2367, 2358, 2375, 2359 >>, << 2358, 2366, 2351, 2342 >>,
      << 2360, 2305, 2327 >>, << 2360, 2305, 2327, 2376 >>,
      << 2360, 2325, 2381, 2331 >>, << 2360, 2335, 2381, 2335, 2366 >>,
      << 2360, 2343, 2376, 2306 >>, << 2360, 2348, 2376 >>,
      << 2360, 2348, 2376, 2354, 2366, 2312 >>, << 2360, 2350, 2351 >>,
      << 2360, 2350, 2381, 2349, 2357 >>, << 2360, 2350, 2381, 2350 >>,
      << 2360, 2361, 2368 >>, << 2360, 2366, 2305, 2330, 2381, 2330, 2376 >>,
      << 2360, 2366, 2340 >>, << 2360, 2366, 2341 >>,
      << 2360, 2366, 2341, 2376 >>, << 2360, 2366, 2351, 2342 >>,
      << 2360, 2366, 2352, 2366 >>, << 2360, 2379 >>,
      << 2360, 2379, 2343, 2381, 2344 >>, << 2360, 2379, 2361, 2368 >>,
      << 2360, 2381, 2346, 2359, 2381, 2335 >>, << 2361, 2352, 2375 >>,
      << 2361, 2352, 2375, 2325 >>, << 2361, 2366, 2350, 2368 >>,
      << 2361, 2366, 2350, 2368, 2354, 2366, 2312 >>,
      << 2361, 2366, 2350, 2381, 2352, 2379 >>, << 2361, 2369, 2305 >>,
      << 2361, 2369, 2344 >>, << 2361, 2369, 2344, 2375 >>,
      << 2361, 2369, 2344, 2375, 2331 >>, << 2361, 2369, 2344, 2381 >>,
      << 2361, 2369, 2344, 2381, 2331 >>, << 2361, 2379 >>,
      << 2361, 2379, 2311, 2344 >>, << 2361, 2379, 2311, 2344, 2344, 2381 >>,
      << 2361, 2379, 2354, 2366 >>, << 2361, 2379, 2360, 2381 >>,
      << 2346, 2379 >>, << 2325, 2367, 8217 >> }

\* a character of (?:[a-zA-Z]|[0-9]|[$-_@.&+]|[!*\\(\\),]|(?:%[0-9a-fA-F][0-9a-fA-F]))
IsUrlChar(c) == IsLatin(c) \/ IsAsciiDigit(c) \/ c \in 36..95 \/ c \in {33, 40, 41, 42, 44, 92}

\* the end of the greedy run of URL characters starting at i
SpanUrl(s, i) ==
    IF i > Len(s) THEN i
    ELSE CHOOSE j \in i..(Len(s) + 1) :
            /\ j > Len(s) \/ ~IsUrlChar(s[j])
            /\ \A k \in i..(j - 1) : IsUrlChar(s[k])

\* the end of the match of url_pattern at i (the position after it), or 0
UrlMatchAt(s, i) ==
    IF StartsWithAt(s, i, << 104, 116, 116, 112 >>)
    THEN LET j == SkipOpt(s, i + 4, 115)
         IN  IF StartsWithAt(s, j, << 58, 47, 47 >>) /\ SpanUrl(s, j + 3) > j + 3
             THEN SpanUrl(s, j + 3) ELSE 0
    ELSE 0

\* url_pattern.search(s)
UrlSearch(s) == \E i \in 1..Len(s) : UrlMatchAt(s, i) # 0

\* [A-Za-z0-9._%+-]
IsEmailLocal(c) == IsLatin(c) \/ IsAsciiDigit(c) \/ c \in {46, 95, 37, 43, 45}
\* [A-Za-z0-9.-]
IsEmailDomain(c) == IsLatin(c) \/ IsAsciiDigit(c) \/ c \in {46, 45}
\* [A-Z|a-z]
IsEmailTld(c) == IsLatin(c) \/ c = 124

\* \b at position i: between s[i-1] and s[i], exactly one is a word character
WordBoundary(s, i) ==
    (i > 1 /\ i - 1 <= Len(s) /\ IsWord(s[i - 1])) # (i <= Len(s) /\ IsWord(s[i]))

\* the positions e such that email_pattern matches s[i..e-1]
EmailEndsAt(s, i) ==
    IF ~WordBoundary(s, i) THEN {}
    ELSE { e \in (i + 5)..(Len(s) + 1) :
            /\ WordBoundary(s, e)
            /\ \E k \in (i + 1)..(e - 4) :
                /\ s[k] = 64
                /\ \A x \in i..(k - 1) : IsEmailLocal(s[x])
                /\ \E d \in (k + 2)..(e - 3) :
                    /\ s[d] = 46
                    /\ \A x \in (k + 1)..(d - 1) : IsEmailDomain(s[x])
                    /\ \A x \in (d + 1)..(e - 1) : IsEmailTld(s[x]) }

\* email_pattern.search(s)
EmailSearch(s) ==
    /\ \E k \in 1..Len(s) : s[k] = 64
    /\ \E i \in 1..Len(s) : EmailEndsAt(s, i) # {}

\* excessive_special_pattern.search(s): [^\w\sऀ-ॿ]{3,}
ExcessiveSpecialSearch(s) ==
    \E i \in 1..(Len(s) - 2) : IsSpecial(s[i]) /\ IsSpecial(s[i + 1]) /\ IsSpecial(s[i + 2])

\* devanagari_pattern.search(s): [ऀ-ॿ]+
DevanagariSearch(s) == \E i \in 1..Len(s) : IsDevanagari(s[i])

\* english_pattern.fullmatch(s): [a-zA-Z]+
EnglishFullMatch(s) == s # << >> /\ \A i \in 1..Len(s) : IsLatin(s[i])

\* english_pattern.search(s)
EnglishSearch(s) == \E i \in 1..Len(s) : IsLatin(s[i])

\* whitespace_pattern.sub(' ', s): every run of \s+ becomes one space
CollapseWhitespace(s) ==
    Flatten([k \in 1..Len(s) |->
                IF ~IsSpace(s[k]) THEN << s[k] >>
                ELSE IF k > 1 /\ IsSpace(s[k - 1]) THEN << >> ELSE << 32 >>],
            1, Len(s))

\* for devanagari, arabic in self.devanagari_to_arabic.items(): replace
DevanagariToArabic(s) ==
    Flatten([k \in 1..Len(s) |->
                << (IF IsDevanagariDigit(s[k]) THEN s[k] - 2358 ELSE s[k]) >>],
            1, Len(s))

(***************************************************************************)
(* NepaliTextPreprocessor: the steps of the token pipeline.                *)
(***************************************************************************)
normalize_unicode(cfg, text) == IF ~cfg.normalize_unicode THEN text ELSE NFC(text)

normalize_whitespace(cfg, text) ==
    IF ~cfg.remove_whitespace THEN text ELSE Strip(CollapseWhitespace(text))

standardize_punctuation(cfg, text) ==
    IF ~cfg.standardize_punctuation THEN text
    ELSE IF is_number_token(cfg, text) THEN text
    ELSE ReplaceChar(ReplaceChar(text, 2404, << 46 >>), 2405, << 46 >>)

\* faulty variant: runs of special characters are not treated as noise
remove_noise_no_special(cfg, token) ==
    IF is_number_token(cfg, token) THEN Some(token)
    ELSE IF cfg.remove_urls /\ UrlSearch(token) THEN None
    ELSE IF cfg.remove_emails /\ EmailSearch(token) THEN None
    ELSE Some(token)

\* Optional[str]
remove_noise(cfg, token) ==
    IF is_number_token(cfg, token) THEN Some(token)
    ELSE IF cfg.remove_urls /\ UrlSearch(token) THEN None
    ELSE IF cfg.remove_emails /\ EmailSearch(token) THEN None
    ELSE IF cfg.remove_excessive_special_chars /\ ExcessiveSpecialSearch(token) THEN None
    ELSE Some(token)

\* faulty variant: Latin words of length 2 are admitted
filter_by_language_len2(cfg, token) ==
    IF ~cfg.language_filtering THEN TRUE
    ELSE IF is_number_token(cfg, token) THEN TRUE
    ELSE IF DevanagariSearch(token) THEN TRUE
    ELSE IF EnglishFullMatch(token) /\ Len(token) >= 2 THEN TRUE
    ELSE FALSE

filter_by_language(cfg, token) ==
    IF ~cfg.language_filtering THEN TRUE
    ELSE IF is_number_token(cfg, token) THEN TRUE
    ELSE IF DevanagariSearch(token) THEN TRUE
    ELSE IF EnglishFullMatch(token) /\ Len(token) > 2 THEN TRUE
    ELSE IF DevanagariSearch(token) /\ EnglishSearch(token) THEN TRUE
    ELSE FALSE

\* faulty variant: numeric tokens are not exempt from the length bounds
filter_by_length_no_veto(cfg, token) ==
    IF ~cfg.length_filtering THEN TRUE
    ELSE cfg.min_token_length <= Len(token) /\ Len(token) <= cfg.max_token_length

\* faulty variant: the upper bound is exclusive
filter_by_length_exclusive(cfg, token) ==
    IF ~cfg.length_filtering THEN TRUE
    ELSE IF is_number_token(cfg, token) THEN TRUE
    ELSE cfg.min_token_length <= Len(token) /\ Len(token) < cfg.max_token_length

filter_by_length(cfg, token) ==
    IF ~cfg.length_filtering THEN TRUE
    ELSE IF is_number_token(cfg, token) THEN TRUE
    ELSE cfg.min_token_length <= Len(token) /\ Len(token) <= cfg.max_token_length

\* faulty variant: the stopword set is never consulted
remove_stopwords_never(cfg, token) == TRUE

\* TRUE when the token is kept
remove_stopwords(cfg, token) ==
    IF ~cfg.remove_stopwords THEN TRUE
    ELSE IF is_number_token(cfg, token) THEN TRUE
    ELSE Lower(token) \notin nepali_stopwords

normalize_devanagari_numerals(cfg, token) ==
    IF ~cfg.normalize_devanagari_numerals THEN token ELSE DevanagariToArabic(token)

\* preprocess_token with the language test applied to the token as it was passed
preprocess_token_language_first(cfg, token) ==
    LET t1 == standardize_punctuation(cfg,
                  normalize_whitespace(cfg, normalize_unicode(cfg, token)))
        n  == remove_noise(cfg, t1)
    IN  IF n = None THEN None
        ELSE IF ~filter_by_language(cfg, token) THEN None
        ELSE IF ~filter_by_length(cfg, n[1]) THEN None
        ELSE IF ~remove_stopwords(cfg, n[1]) THEN None
        ELSE LET t2 == normalize_devanagari_numerals(cfg, n[1])
             IN  IF Strip(t2) # << >> THEN Some(t2) ELSE None

\* Optional[str]
preprocess_token(cfg, token) ==
    LET t1 == standardize_punctuation(cfg,
                  normalize_whitespace(cfg, normalize_unicode(cfg, token)))
        n  == remove_noise(cfg, t1)
    IN  IF n = None THEN None
        ELSE IF ~filter_by_language(cfg, n[1]) THEN None
        ELSE IF ~filter_by_length(cfg, n[1]) THEN None
        ELSE IF ~remove_stopwords(cfg, n[1]) THEN None
        ELSE LET t2 == normalize_devanagari_numerals(cfg, n[1])
             IN  IF Strip(t2) # << >> THEN Some(t2) ELSE None

(***************************************************************************)
(* NepaliTextCleaner: configuration and compiled patterns.                 *)
(***************************************************************************)
default_cleaning_config ==
    [ preserve_numbers |-> TRUE,
      normalize_unicode |-> TRUE,
      remove_extra_whitespace |-> TRUE,
      standardize_punctuation |-> TRUE,
      remove_urls |-> TRUE,
      remove_emails |-> TRUE,
      normalize_devanagari_numerals |-> FALSE,
      remove_html_tags |-> TRUE,
      remove_excessive_punctuation |-> TRUE,
      preserve_sentence_structure |-> TRUE,
      min_text_length |-> 10,
      max_text_length |-> 10000 ]

\* the first position >= i holding character c, or 0
FirstAt(s, i, c) ==
    LET S == { j \in i..Len(s) : s[j] = c }
    IN  IF S = {} THEN 0 ELSE Min(S)

\* the sub operators below follow re.sub: the leftmost match at or after i is
\* replaced, the text before it is copied, and the scan resumes after the match

\* html_pattern.sub(' ', s) from position i on: <[^>]+>
RECURSIVE HtmlSub(_, _)
HtmlSub(s, i) ==
    LET starts == { j \in i..Len(s) :
                        /\ s[j] = 60 /\ j + 1 <= Len(s) /\ s[j + 1] # 62
                        /\ FirstAt(s, j + 2, 62) # 0 }
    IN  IF starts = {} THEN Slice(s, i, Len(s))
        ELSE Slice(s, i, Min(starts) - 1) \o << 32 >>
             \o HtmlSub(s, FirstAt(s, Min(starts) + 2, 62) + 1)

\* url_pattern.sub(' ', s) from position i on
RECURSIVE UrlSub(_, _)
UrlSub(s, i) ==
    LET starts == { j \in i..Len(s) : UrlMatchAt(s, j) # 0 }
    IN  IF starts = {} THEN Slice(s, i, Len(s))
        ELSE Slice(s, i, Min(starts) - 1) \o << 32 >> \o UrlSub(s, UrlMatchAt(s, Min(starts)))

\* email_pattern.sub(' ', s) from position i on: the greedy quantifiers take the
\* longest domain and top-level part that a word boundary follows
RECURSIVE EmailSub(_, _)
EmailSub(s, i) ==
    LET starts == IF \A k \in i..Len(s) : s[k] # 64 THEN {}
                  ELSE { j \in i..Len(s) : EmailEndsAt(s, j) # {} }
    IN  IF starts = {} THEN Slice(s, i, Len(s))
        ELSE Slice(s, i, Min(starts) - 1) \o << 32 >>
             \o EmailSub(s, Max(EmailEndsAt(s, Min(starts))))

\* [।.!?]
IsTerminator(c) == c \in {2404, 46, 33, 63}
SpanTerminator(s, i) ==
    IF i > Len(s) THEN i
    ELSE CHOOSE j \in i..(Len(s) + 1) :
            /\ j > Len(s) \/ ~IsTerminator(s[j])
            /\ \A k \in i..(j - 1) : IsTerminator(s[k])
SpanSpecial(s, i) ==
    IF i > Len(s) THEN i
    ELSE CHOOSE j \in i..(Len(s) + 1) :
            /\ j > Len(s) \/ ~IsSpecial(s[j])
            /\ \A k \in i..(j - 1) : IsSpecial(s[k])

\* re.sub(r'([।.!?]){3,}', r'\1\1', s) from position i on: the group holds the
\* last terminator of the run
RECURSIVE TerminatorSub(_, _)
TerminatorSub(s, i) ==
    LET starts == { j \in i..Len(s) : SpanTerminator(s, j) - j >= 3 }
    IN  IF starts = {} THEN Slice(s, i, Len(s))
        ELSE LET e == SpanTerminator(s, Min(starts))
             IN  Slice(s, i, Min(starts) - 1) \o << s[e - 1], s[e - 1] >>
                 \o TerminatorSub(s, e)

\* excessive_punct_pattern.sub('', s) from position i on: [^\w\sऀ-ॿ]{3,}
RECURSIVE ExcessivePunctSub(_, _)
ExcessivePunctSub(s, i) ==
    LET starts == { j \in i..Len(s) : SpanSpecial(s, j) - j >= 3 }
    IN  IF starts = {} THEN Slice(s, i, Len(s))
        ELSE Slice(s, i, Min(starts) - 1)
             \o ExcessivePunctSub(s, SpanSpecial(s, Min(starts)))

\* re.sub(r'\s*c\s*', 'c ', s) from position i on, for a literal character c
RECURSIVE PunctSpaceSub(_, _, _)
PunctSpaceSub(s, i, c) ==
    LET starts == { j \in i..Len(s) :
                        SpanSpace(s, j) <= Len(s) /\ s[SpanSpace(s, j)] = c }
    IN  IF starts = {} THEN Slice(s, i, Len(s))
        ELSE Slice(s, i, Min(starts) - 1) \o << c, 32 >>
             \o PunctSpaceSub(s, SpanSpace(s, SpanSpace(s, Min(starts)) + 1), c)

\* re.sub(r'\s*?\s*', '? ', s) from position i on: the question mark is not
\* escaped, so it makes the first \s* lazy and the pattern matches the (possibly
\* empty) run of white space at every position, the end of the text included:
\* '? ' replaces every run of white space and is inserted before every other
\* character and at the end
QuestionSub(s, i) ==
    Flatten([k \in i..Len(s) |->
                IF ~IsSpace(s[k]) THEN << 63, 32, s[k] >>
                ELSE IF k > i /\ IsSpace(s[k - 1]) THEN << >> ELSE << 63, 32 >>],
            i, Len(s)) \o << 63, 32 >>

(***************************************************************************)
(* NepaliTextCleaner: the steps of the text pipeline.                      *)
(***************************************************************************)
\* the indices of self.number_patterns of the cleaner: no plain integer
cleaner_number_patterns == 1..6

\* pattern.search(segment) for the i-th number pattern
NumberPatternSearch(i, segment) ==
    \E a \in 1..Len(segment) : \E b \in a..Len(segment) :
        NumberPatternMatches(i, SubSeq(segment, a, b))

\* text[start:end] of Python (0-based, end exclusive)
is_number_context(cfg, text, start, end) ==
    IF ~cfg.preserve_numbers THEN FALSE
    ELSE \E i \in cleaner_number_patterns :
            NumberPatternSearch(i, Strip(Slice(text, start + 1, end)))

cleaner_normalize_unicode(cfg, text) == IF ~cfg.normalize_unicode THEN text ELSE NFC(text)

remove_html_tags(cfg, text) == IF ~cfg.remove_html_tags THEN text ELSE HtmlSub(text, 1)

remove_urls(cfg, text) == IF ~cfg.remove_urls THEN text ELSE UrlSub(text, 1)

remove_emails(cfg, text) == IF ~cfg.remove_emails THEN text ELSE EmailSub(text, 1)

cleaner_normalize_whitespace(cfg, text) ==
    IF ~cfg.remove_extra_whitespace THEN text
    ELSE LET t0 == CollapseWhitespace(text)
             t1 == IF cfg.preserve_sentence_structure
                   THEN PunctSpaceSub(
                            PunctSpaceSub(QuestionSub(PunctSpaceSub(t0, 1, 2404), 1), 1, 33),
                            1, 44)
                   ELSE t0
         IN  Strip(t1)

cleaner_standardize_punctuation(cfg, text) ==
    IF ~cfg.standardize_punctuation THEN text
    ELSE LET t0 == ReplaceChar(text, 2405, << 2404 >>)
         IN  IF cfg.remove_excessive_punctuation
             THEN ExcessivePunctSub(TerminatorSub(t0, 1), 1)
             ELSE t0

cleaner_normalize_devanagari_numerals(cfg, text) ==
    IF ~cfg.normalize_devanagari_numerals THEN text ELSE DevanagariToArabic(text)

\* faulty variant: the length is taken before trimming
cleaner_filter_by_length_untrimmed(cfg, text) ==
    cfg.min_text_length <= Len(text) /\ Len(text) <= cfg.max_text_length

cleaner_filter_by_length(cfg, text) ==
    LET length == Len(Strip(text))
    IN  cfg.min_text_length <= length /\ length <= cfg.max_text_length

\* Optional[str]
clean_text(cfg, text) ==
    IF text = << >> \/ Strip(text) = << >> THEN None
    ELSE LET t1 == remove_emails(cfg, remove_urls(cfg,
                       remove_html_tags(cfg, cleaner_normalize_unicode(cfg, text))))
             t2 == cleaner_normalize_whitespace(cfg, cleaner_standardize_punctuation(cfg, t1))
             t3 == cleaner_normalize_devanagari_numerals(cfg, t2)
         IN  IF ~cleaner_filter_by_length(cfg, t3) THEN None
             ELSE IF Strip(t3) # << >> THEN Some(Strip(t3)) ELSE None

\* faulty variant: the last occurrence of every element is kept
RECURSIVE DictFromKeysLast(_, _)
DictFromKeysLast(xs, seen) ==
    IF xs = << >> THEN << >>
    ELSE IF \E k \in 1..Len(xs) - 1 : Tail(xs)[k] = Head(xs)
         THEN DictFromKeysLast(Tail(xs), seen)
         ELSE << Head(xs) >> \o DictFromKeysLast(Tail(xs), seen)

\* list(dict.fromkeys(xs)): the first occurrence of every element, in order
RECURSIVE DictFromKeys(_, _)
DictFromKeys(xs, seen) ==
    IF xs = << >> THEN << >>
    ELSE IF \E k \in 1..Len(seen) : seen[k] = Head(xs)
         THEN DictFromKeys(Tail(xs), seen)
         ELSE << Head(xs) >> \o DictFromKeys(Tail(xs), Append(seen, Head(xs)))

\* the loop of preprocess_tokens: the processed tokens, and the removed count
\* one pass of the loop: the processed token is kept, or counted as removed
ProcessStep(processed_token, rest) ==
    IF processed_token # None
    THEN [rest EXCEPT !.processed_tokens = << processed_token[1] >> \o @]
    ELSE [rest EXCEPT !.removed_count = @ + 1]

RECURSIVE ProcessLoop(_, _)
ProcessLoop(cfg, toks) ==
    IF toks = << >> THEN [processed_tokens |-> << >>, removed_count |-> 0]
    ELSE ProcessStep(preprocess_token(cfg, Head(toks)), ProcessLoop(cfg, Tail(toks)))

\* result.data of preprocess_tokens for the tokens kept and the count of removals
TokensResult(toks, processed_tokens, removed_count) ==
    [ success |-> TRUE,
      error |-> None,
      tokens |-> processed_tokens,
      original_count |-> Len(toks),
      processed_count |-> Len(processed_tokens),
      removed_count |-> removed_count ]

\* preprocess_tokens after the loop: duplicates are removed if enabled
AfterLoop(cfg, toks, loop) ==
    TokensResult(toks,
                 IF cfg.remove_duplicates
                 THEN DictFromKeys(loop.processed_tokens, << >>)
                 ELSE loop.processed_tokens,
                 loop.removed_count)

\* ProcessingResult of preprocess_tokens for a list of strings
preprocess_tokens(cfg, toks) == AfterLoop(cfg, toks, ProcessLoop(cfg, toks))

\* ProcessingResult(): success False, error None, data {}
NewProcessingResult ==
    [ success |-> FALSE, error |-> None, tokens |-> << >>,
      original_count |-> 0, processed_count |-> 0, removed_count |-> 0 ]

(***************************************************************************)
(* ProcessingResult (utils.py) with its data dictionary, and the JSON       *)
(* values of the articles the news API returns.                            *)
(***************************************************************************)
\* the empty dictionary {}
NoData == << >>

\* a failed ProcessingResult whose error was never assigned
FailureWithoutMessage(message) == [success |-> FALSE, error |-> None, data |-> NoData]

\* a ProcessingResult left as constructed but for the error message
Failure(message) == [success |-> FALSE, error |-> Some(message), data |-> NoData]
\* a ProcessingResult with success set and the data dictionary assigned
Success(data) == [success |-> TRUE, error |-> None, data |-> data]

\* what the caller of an operation observes: an exception that left the
\* operation, or the ProcessingResult returned; written holds the payloads the
\* call saved to files
Raised == [raised |-> TRUE, result |-> NoData, written |-> << >>]
Returned(res, written) == [raised |-> FALSE, result |-> res, written |-> written]

\* the value d.get(key) works on: the key is missing, or it holds null, a
\* string or a number
Missing == [kind |-> "missing", str |-> << >>, num |-> 0]
Null == [kind |-> "null", str |-> << >>, num |-> 0]
Str(s) == [kind |-> "str", str |-> s, num |-> 0]
Num(n) == [kind |-> "num", str |-> << >>, num |-> n]

\* isinstance(v, str)
IsStr(v) == v.kind = "str"

\* bool(v) of Python for the value under a key; a missing key reads as None
Truthy(v) == (v.kind = "str" /\ v.str # << >>) \/ (v.kind = "num" /\ v.num # 0)

\* d.get(key): None for a missing key
Get(v) == IF v.kind = "missing" THEN Null ELSE v
\* d.get(key, default)
GetOr(v, default) == IF v.kind = "missing" THEN default ELSE v

\* a JSON object with the keys the pipelines read
Article(id, title, description, content) ==
    [ mapping |-> TRUE, id |-> id, title |-> title, description |-> description,
      content |-> content, published_date |-> Missing, category |-> Missing,
      source |-> Missing ]
\* an element of the list that is not a JSON object (a string, a number, null)
NotAMapping ==
    [ mapping |-> FALSE, id |-> Missing, title |-> Missing, description |-> Missing,
      content |-> Missing, published_date |-> Missing, category |-> Missing,
      source |-> Missing ]

\* str(n) for a natural number
RECURSIVE Decimal(_)
Decimal(n) == IF n < 10 THEN << 48 + n >> ELSE Decimal(n \div 10) \o << 48 + (n % 10) >>

\* ' '.join(parts) for a list of strings
JoinSpace(parts) ==
    Flatten([k \in 1..Len(parts) |-> IF k = 1 THEN parts[k] ELSE << 32 >> \o parts[k]],
            1, Len(parts))

(***************************************************************************)
(* NepaliTextCleaner: process_articles and process_live_data.              *)
(***************************************************************************)
\* the parts of an article whose content is not read
text_parts_no_content(article) ==
    SelectSeq(<< article.title, article.description >>, Truthy)

\* the list text_parts of an article: the values under title, description and
\* content that are true, in this order
text_parts(article) ==
    SelectSeq(<< article.title, article.description, article.content >>, Truthy)

\* the rate computed without the test original_count > 0
retention_rate_unguarded(cleaned_count, original_count) ==
    [num |-> cleaned_count * 100, den |-> original_count]

\* cleaned_count / original_count * 100, kept as the fraction num / den; the
\* integer 0 when no article was counted
retention_rate(cleaned_count, original_count) ==
    IF original_count > 0
    THEN [num |-> cleaned_count * 100, den |-> original_count]
    ELSE [num |-> 0, den |-> 1]

\* the loop of process_articles from article i on; acc holds cleaned_articles,
\* original_count and cleaned_count, and raised once an exception left the loop
RECURSIVE ArticlesLoop(_, _, _, _)
ArticlesLoop(cfg, articles, i, acc) ==
    IF i > Len(articles) THEN acc
    ELSE LET article == articles[i]
             parts == text_parts(article)
         IN  IF ~article.mapping
             THEN [acc EXCEPT !.raised = TRUE]          \* no attribute 'get'
             ELSE IF parts = << >>
             THEN ArticlesLoop(cfg, articles, i + 1, acc)
             ELSE IF \E k \in 1..Len(parts) : parts[k].kind # "str"
             THEN [acc EXCEPT !.raised = TRUE]          \* join: expected str
             ELSE
                LET combined_text == JoinSpace([k \in 1..Len(parts) |-> parts[k].str])
                    original_count == acc.original_count + 1
                    cleaned_text == clean_text(cfg, combined_text)
                    cleaned_article ==
                        [ original_id |->
                              GetOr(article.id,
                                    Str(<< 97, 114, 116, 105, 99, 108, 101, 95 >>
                                        \o Decimal(original_count))),
                          original_title |-> GetOr(article.title, Str(<< >>)),
                          original_length |-> Len(combined_text),
                          metadata |->
                              [ published_date |-> Get(article.published_date),
                                category |-> Get(article.category),
                                source |-> Get(article.source) ] ]
                IN  IF cleaned_text # None /\ cleaned_text[1] # << >>
                    THEN ArticlesLoop(cfg, articles, i + 1,
                            [acc EXCEPT !.cleaned_articles = Append(@, cleaned_article),
                                        !.original_count = original_count,
                                        !.cleaned_count = @ + 1])
                    ELSE ArticlesLoop(cfg, articles, i + 1,
                            [acc EXCEPT !.original_count = original_count])

\* process_articles reporting a failure when no article was cleaned
ProcessArticlesFailingWhenEmpty(loop) ==
    IF loop.raised \/ loop.cleaned_articles = << >>
    THEN [success |-> FALSE, error |-> Some("Error processing articles"), data |-> NoData]
    ELSE [success |-> TRUE, error |-> None,
          data |-> [ articles |-> loop.cleaned_articles,
                     original_count |-> loop.original_count,
                     cleaned_count |-> loop.cleaned_count,
                     retention_rate |-> [num |-> loop.cleaned_count * 100,
                                         den |-> loop.original_count] ]]

\* process_articles with its loop given: the try block around the whole loop
ProcessArticlesWith(loop) ==
    IF loop.raised
    THEN Failure("Error processing articles")
    ELSE Success([ articles |-> loop.cleaned_articles,
                   original_count |-> loop.original_count,
                   cleaned_count |-> loop.cleaned_count,
                   retention_rate |->
                       retention_rate(loop.cleaned_count, loop.original_count) ])

NewLoop == [raised |-> FALSE, cleaned_articles |-> << >>,
            original_count |-> 0, cleaned_count |-> 0]

process_articles(cfg, articles) ==
    ProcessArticlesWith(ArticlesLoop(cfg, articles, 1, NewLoop))

\* fetch_live_articles on what the server answered: the request failed, the
\* body is no JSON, the JSON is no list, or the JSON is the list items
fetch_live_articles(response) ==
    CASE response.kind = "network_error" -> Failure("Network error")
      [] response.kind = "invalid_json" -> Failure("Invalid JSON response")
      [] response.kind = "not_a_list" ->
            Failure("Unexpected data format: Expected a list of articles")
      [] response.kind = "list" -> Success([articles |-> response.items])

\* save_cleaned_data and save_tokens: save_json_data wrote the file or not
save_cleaned_data(disk_ok) ==
    IF disk_ok THEN Success([filepath |-> "cleaned_articles.json"])
    ELSE Failure("Failed to save cleaned data to file")
save_tokens(disk_ok) ==
    IF disk_ok THEN Success([filepath |-> "article_tokens.json"])
    ELSE Failure("Failed to save tokens to file")

\* process_live_data going on to save after process_articles failed
cleaner_process_live_data_unstaged(cfg, response, disk_ok) ==
    IF ~fetch_live_articles(response).success
    THEN Returned(fetch_live_articles(response), << >>)
    ELSE IF ~save_cleaned_data(disk_ok).success
    THEN Returned(save_cleaned_data(disk_ok), << >>)
    ELSE Returned(Success([ filepath |-> save_cleaned_data(disk_ok).data.filepath,
                            articles_fetched |-> Len(response.items),
                            articles_cleaned |-> 0,
                            retention_rate |-> retention_rate(0, 0) ]),
                  << << >> >>)

\* NepaliTextCleaner.process_live_data: fetch, clean, save
cleaner_process_live_data(cfg, response, disk_ok) ==
    LET fetch_result == fetch_live_articles(response)
    IN  IF ~fetch_result.success THEN Returned(fetch_result, << >>)
        ELSE
          LET articles == fetch_result.data.articles
              process_result == process_articles(cfg, articles)
              save_result == save_cleaned_data(disk_ok)
          IN  IF ~process_result.success THEN Returned(process_result, << >>)
              ELSE IF ~save_result.success THEN Returned(save_result, << >>)
              ELSE Returned(
                     Success([ filepath |-> save_result.data.filepath,
                               articles_fetched |-> Len(articles),
                               articles_cleaned |-> process_result.data.cleaned_count,
                               retention_rate |-> process_result.data.retention_rate ]),
                     << process_result.data.articles >>)

(***************************************************************************)
(* NepaliTextPreprocessor.preprocess_tokens on a list of JSON values.       *)
(***************************************************************************)
\* whether preprocess_token raises on a JSON value that is no string: a number
\* raises in the first step that is enabled, at the latest in the final
\* token.strip(); null raises in a step of phase 1 or in a test of remove_noise
\* that is enabled, and is returned as None by remove_noise otherwise
RaisesOn(cfg, item) ==
    \/ item.kind = "num"
    \/ /\ item.kind = "null"
       /\ \/ cfg.normalize_unicode \/ cfg.remove_whitespace
          \/ cfg.standardize_punctuation \/ cfg.preserve_numbers
          \/ cfg.remove_urls \/ cfg.remove_emails
          \/ cfg.remove_excessive_special_chars

\* the strings among the values of a list
StrsOf(items) ==
    [k \in 1..Len(SelectSeq(items, IsStr)) |-> SelectSeq(items, IsStr)[k].str]

\* the data dictionary of preprocess_tokens: res is the result for the strings
\* of the list, original_count the length of the list, and the values that
\* are no strings are counted as removed
TokensData(res, original_count) ==
    [ tokens |-> res.tokens,
      original_count |-> original_count,
      processed_count |-> res.processed_count,
      removed_count |-> original_count - res.original_count + res.removed_count ]

\* the try block of preprocess_tokens: the except clause reports the value
\* that raised; a null that does not raise is counted as removed
preprocess_tokens_json(cfg, items) ==
    IF \E k \in 1..Len(items) : RaisesOn(cfg, items[k])
    THEN Failure("Error during preprocessing")
    ELSE Success(TokensData(preprocess_tokens(cfg, StrsOf(items)), Len(items)))

(***************************************************************************)
(* NepaliTextTokenizer.                                                    *)
(***************************************************************************)
\* string.punctuation and the dandas: the characters trivial_tokenize of the
\* Indic NLP library sets apart as tokens
IsPunctuation(c) ==
    c \in (33..47) \cup (58..64) \cup (91..96) \cup (123..126) \cup {2404, 2405}

\* the tokens of s from position i on, s split at the runs of spaces
RECURSIVE SplitFrom(_, _)
SplitFrom(s, i) ==
    LET S == { j \in i..Len(s) : s[j] # 32 }
    IN  IF S = {} THEN << >>
        ELSE LET b == Min(S)
                 E == { j \in b..Len(s) : s[j] = 32 }
                 e == IF E = {} THEN Len(s) + 1 ELSE Min(E)
             IN  << SubSeq(s, b, e - 1) >> \o SplitFrom(s, e)

\* indic_tokenize.trivial_tokenize: every punctuation character is a token,
\* the rest is split at spaces and tabs
trivial_tokenize(text) ==
    SplitFrom(Flatten([k \in 1..Len(text) |->
                          IF IsPunctuation(text[k]) THEN << 32, text[k], 32 >>
                          ELSE IF text[k] = 9 THEN << 32 >>
                          ELSE << text[k] >>], 1, Len(text)), 1)

tokenize_text(text) ==
    IF text = << >> \/ Strip(text) = << >>
    THEN Success([tokens |-> << >>])
    ELSE Success([tokens |-> trivial_tokenize(Strip(text))])

\* the text process_live_data tokenizes for an article, None when building it
\* raises: title + " " + description, content is not read
text_to_tokenize(article) ==
    LET title == GetOr(article.title, Str(<< >>))
        description == GetOr(article.description, Str(<< >>))
    IN  IF article.mapping /\ title.kind = "str" /\ description.kind = "str"
        THEN Some(title.str \o << 32 >> \o description.str)
        ELSE None

\* the loop of process_live_data from article i on
RECURSIVE TokenizeLoop(_, _, _)
TokenizeLoop(articles, i, all_tokens) ==
    IF i > Len(articles) THEN [raised |-> FALSE, all_tokens |-> all_tokens]
    ELSE LET text == text_to_tokenize(articles[i])
         IN  IF text = None
             THEN [raised |-> TRUE, all_tokens |-> all_tokens]
             ELSE LET tokenize_result == tokenize_text(text[1])
                  IN  TokenizeLoop(articles, i + 1,
                         IF tokenize_result.success
                         THEN all_tokens \o tokenize_result.data.tokens
                         ELSE all_tokens)

\* NepaliTextTokenizer.process_live_data: fetch, tokenize, save
tokenizer_process_live_data(response, disk_ok) ==
    LET fetch_result == fetch_live_articles(response)
    IN  IF ~fetch_result.success THEN Returned(fetch_result, << >>)
        ELSE
          LET articles == fetch_result.data.articles
              loop == TokenizeLoop(articles, 1, << >>)
              save_result == save_tokens(disk_ok)
          IN  IF loop.raised THEN Raised
              ELSE IF loop.all_tokens = << >>
              THEN Returned(Failure("No tokens generated from articles"), << >>)
              ELSE IF ~save_result.success THEN Returned(save_result, << >>)
              ELSE Returned(
                     Success([ tokens |-> loop.all_tokens,
                               filepath |-> save_result.data.filepath,
                               token_count |-> Len(loop.all_tokens),
                               articles_processed |-> Len(articles) ]),
                     << loop.all_tokens >>)

(***************************************************************************)
(* Inputs.                                                                 *)
(***************************************************************************)
\* all strings over the alphabet A of length at most n
RECURSIVE Strings(_, _)
Strings(A, n) ==
    IF n = 0 THEN { << >> }
    ELSE LET S == Strings(A, n - 1)
         IN  S \cup { Append(s, c) : s \in S, c \in A }

\* 5 ५ म a % space
TokenAlphabet == {53, 2411, 2350, 97, 37, 32}

Tok_Nepal == << 2344, 2375, 2346, 2366, 2354 >>            \* नेपाल
Tok_Year == << 2408, 2406, 2408, 2410 >>                   \* २०२४
Tok_YearArabic == << 50, 48, 50, 52 >>                     \* 2024
Tok_UrlX == << 104, 116, 116, 112, 115, 58, 47, 47, 120, 46, 99, 111, 109 >>
Tok_UrlY == << 104, 116, 116, 112, 58, 47, 47, 121, 46, 99, 111, 109 >>
Tok_Hashes == << 35, 35, 35 >>                             \* ###
Tok_The == << 116, 104, 101 >>                             \* the
Tok_Pani == << 2346, 2344, 2367 >>                         \* पनि
Tok_Ka == << 2325 >>                                       \* क
Tok_Kha == << 2326 >>                                      \* ख
Tok_Ga == << 2327 >>                                       \* ग
Tok_Pct == << 2411, 2406, 37 >>                            \* ५०%
Tok_PctArabic == << 53, 48, 37 >>                          \* 50%

\* tokens the specification and the source comments name, and tokens that reach
\* the patterns the short strings cannot
SampleTokens ==
    { Tok_Nepal, Tok_Year, Tok_YearArabic, Tok_UrlX, Tok_UrlY, Tok_Hashes, Tok_The,
      Tok_Pani, Tok_Ka, Tok_Kha, Tok_Ga, Tok_Pct, Tok_PctArabic,
      << 49, 50, 51, 52, 53 >>,                            \* 12345
      << 2409, 2410, 2411, 2412 >>,                        \* ३४५६
      << 2407, 2415, 2415, 2415 >>,                        \* १९९९
      << 53, 32, 107, 109 >>,                              \* 5 km
      << 53, 9, 32, 107, 109 >>,                           \* 5 <tab><space> km
      << 2411, 32, 2325, 2367, 2350, 2368 >>,              \* ५ किमी
      << 53, 107, 103, 115 >>,                             \* 5kgs
      << 2352, 2369, 46, 32, 49, 48, 48 >>,                \* रु. 100
      << 82, 115, 46, 32, 49, 48, 48 >>,                   \* Rs. 100
      << 49, 44, 50, 51, 52 >>,                            \* 1,234
      << 2407, 44, 2408, 2409, 2410 >>,                    \* १,२३४
      << 49, 44, 50, 51 >>,                                \* 1,23
      << 52, 53, 46, 54 >>,                                \* 45.6
      << 2410, 2411, 46, 2412 >>,                          \* ४५.६
      << 32, 53, 48, 37, 32 >>,                            \* <space>50%<space>
      << 53, 8192, 37 >>,                                  \* 5<en quad>%
      << 97, 64, 98, 46, 99, 111 >>,                       \* a@b.co
      << 2325, 2350, 32, 2360, 2375, 32, 2325, 2350 >>,    \* कम से कम
      << 2325, 2350, 32, 32, 2360, 2375, 32, 2325, 2350 >>,
      << 2344, 2364 >>,                                    \* na + nukta
      << 2392 >>,                                          \* qa
      << 2404 >>, << 2405 >>,                              \* danda, double danda
      << 116, 104 >>, << 84, 72, 69 >>, << 97, 49, 98 >>,  \* th THE a1b
      << 2350, 97, 98 >>,                                  \* मab
      << 2350, 35, 35, 35 >>,                              \* म###
      << 53, 46 >>, << 46, 53 >>, << 53, 44 >>, << 35 >>,  \* 5. .5 5, #
      << 53, 109 >>, << 2411, 109 >>, << 109, 53 >>,       \* 5m ५m m5
      << 2350 >> \o Tok_UrlY }

TokenInputs == Strings(TokenAlphabet, MaxLen) \cup SampleTokens

\* the tokens the lists are built from
ListPool == { Tok_Ka, Tok_Year, Tok_YearArabic, Tok_Hashes }

RECURSIVE Lists(_, _)
Lists(P, n) ==
    IF n = 0 THEN { << >> }
    ELSE LET S == Lists(P, n - 1)
         IN  S \cup { Append(l, t) : l \in S, t \in P }

Scenario == << Tok_Nepal, Tok_Year, Tok_UrlX, Tok_UrlY, Tok_Hashes, Tok_The >>
DedupExample == << Tok_Ka, Tok_Kha, Tok_Ka, Tok_Ga >>

TokenListInputs == Lists(ListPool, MaxTokens) \cup { Scenario, DedupExample }

\* the options of the preprocessor with the values an override gives them
PreprocessingOverrides ==
    { << o, ~default_preprocessing_config[o] >> :
        o \in { "preserve_numbers", "normalize_unicode", "remove_whitespace",
                "standardize_punctuation", "remove_urls", "remove_emails",
                "language_filtering", "length_filtering", "remove_stopwords",
                "normalize_devanagari_numerals", "remove_duplicates",
                "remove_excessive_special_chars" } }
    \cup { << "min_token_length", 2 >>, << "max_token_length", 1 >> }

\* cfg with the overrides of the set ovs applied (at most one per option)
RECURSIVE ApplyOverrides(_, _)
ApplyOverrides(cfg, ovs) ==
    IF ovs = {} THEN cfg
    ELSE LET ov == CHOOSE x \in ovs : TRUE
         IN  ApplyOverrides([cfg EXCEPT ![ov[1]] = ov[2]], ovs \ {ov})

OverrideSets(all) ==
    { ovs \in SUBSET all :
        /\ Cardinality(ovs) <= MaxOverrides
        /\ \A x, y \in ovs : x[1] = y[1] => x = y }

PreprocessingConfigs ==
    { ApplyOverrides(default_preprocessing_config, ovs) :
        ovs \in OverrideSets(PreprocessingOverrides) }

(***************************************************************************)
(* NepaliTextPreprocessor built from a configuration mapping, and the      *)
(* token files it processes.  A configuration mapping is a function from   *)
(* the keys it holds to their values; it may lack options and hold keys    *)
(* that are no options (auto_clean, enabled).                              *)
(***************************************************************************)
PreprocessingOptions == DOMAIN default_preprocessing_config

\* self.config = config or self._get_default_preprocessing_config(): None and
\* the empty mapping are both << >>
NewPreprocessorConfig(mapping) ==
    IF mapping = << >> THEN default_preprocessing_config ELSE mapping

\* the values the steps read from the mapping cfg; an option the mapping lacks
\* is listed with its default, and reading it raises KeyError (see KeysRead)
Values(cfg) ==
    [ k \in PreprocessingOptions |->
        IF k \in DOMAIN cfg THEN cfg[k] ELSE default_preprocessing_config[k] ]

\* the keys remove_noise reads after is_number_token said no
NoiseKeysRead(v, t) ==
    {"remove_urls"} \cup
    ( IF v.remove_urls /\ UrlSearch(t) THEN {}
      ELSE {"remove_emails"} \cup
           ( IF v.remove_emails /\ EmailSearch(t) THEN {}
             ELSE {"remove_excessive_special_chars"} ) )

\* the keys filter_by_length reads: min <= length <= max reads max only when
\* the first comparison holds
LengthKeysRead(v, t) ==
    {"length_filtering"} \cup
    ( IF ~v.length_filtering \/ is_number_token(v, t) THEN {}
      ELSE {"min_token_length"} \cup
           ( IF v.min_token_length <= Len(t) THEN {"max_token_length"} ELSE {} ) )

\* the keys preprocess_token reads from remove_noise on, for the token t1 that
\* Phase 1 produced
KeysReadAfterPhase1(v, t1) ==
    ( IF is_number_token(v, t1) THEN {} ELSE NoiseKeysRead(v, t1) )
    \cup ( IF remove_noise(v, t1) = None THEN {}
           ELSE {"language_filtering"} \cup
                ( IF ~filter_by_language(v, t1) THEN {}
                  ELSE LengthKeysRead(v, t1) \cup
                       ( IF ~filter_by_length(v, t1) THEN {}
                         ELSE {"remove_stopwords"} \cup
                              ( IF ~remove_stopwords(v, t1) THEN {}
                                ELSE {"normalize_devanagari_numerals"} ) ) ) )

\* the keys of self.config that preprocess_token reads for the string token
\* when the options have the values v, up to the return of the call
KeysRead(v, token) ==
    { "normalize_unicode", "remove_whitespace", "standardize_punctuation",
      "preserve_numbers" }
    \cup KeysReadAfterPhase1(v,
             standardize_punctuation(v,
                 normalize_whitespace(v, normalize_unicode(v, token))))

\* whether preprocess_tokens reads a key the mapping cfg lacks: one of a token,
\* or remove_duplicates after the loop
KeyErrorOn(cfg, toks) ==
    \/ \E k \in 1..Len(toks) : ~(KeysRead(Values(cfg), toks[k]) \subseteq DOMAIN cfg)
    \/ "remove_duplicates" \notin DOMAIN cfg

\* preprocess_tokens of a preprocessor whose self.config is the mapping cfg, on
\* a list of strings: the KeyError is caught by the except clause
preprocess_tokens_with(cfg, toks) ==
    IF KeyErrorOn(cfg, toks) THEN Failure("Error during preprocessing")
    ELSE Success(TokensData(preprocess_tokens(Values(cfg), toks), Len(toks)))

\* a file of the input directory: unreadable or no JSON (load_json_data
\* returns None), an empty JSON object, an object without 'tokens', or an
\* object with a list of string tokens
Unreadable == [kind |-> "unreadable", tokens |-> << >>]
EmptyObject == [kind |-> "empty", tokens |-> << >>]
NoTokensField == [kind |-> "no_tokens", tokens |-> << >>]
TokenFile(toks) == [kind |-> "tokens", tokens |-> toks]

\* process_json_file: output_data, the mapping saved to the output file
output_data(original_tokens, processed_tokens) ==
    [ original_token_count |-> Len(original_tokens),
      processed_token_count |-> Len(processed_tokens),
      removed_token_count |-> Len(original_tokens) - Len(processed_tokens),
      tokens |-> processed_tokens ]

\* process_json_file after the file was loaded and holds 'tokens'
ProcessLoadedFile(original_tokens, preprocess_result, disk_ok) ==
    IF ~preprocess_result.success
    THEN Returned(Failure(preprocess_result.error[1]), << >>)
    ELSE IF ~disk_ok
    THEN Returned(Failure("Failed to save processed data"), << >>)
    ELSE Returned(
           Success([ input_file |-> "input.json", output_file |-> "cleaned_input.json",
                     original_token_count |-> Len(original_tokens),
                     processed_token_count |-> Len(preprocess_result.data.tokens) ]),
           << output_data(original_tokens, preprocess_result.data.tokens) >>)

process_json_file(cfg, file, disk_ok) ==
    IF file.kind \in {"unreadable", "empty"}
    THEN Returned(Failure("Failed to load data"), << >>)
    ELSE IF file.kind = "no_tokens"
    THEN Returned(Failure("JSON file does not contain 'tokens' field"), << >>)
    ELSE ProcessLoadedFile(file.tokens, preprocess_tokens_with(cfg, file.tokens), disk_ok)

(***************************************************************************)
(* main.py: the 'preprocessing' section and the token modes of             *)
(* NepaliTextProcessor.                                                    *)
(***************************************************************************)
\* d.get(key, False) on a configuration mapping
GetFlag(section, key) == IF key \in DOMAIN section THEN section[key] ELSE FALSE

\* apply_config_overrides on the 'preprocessing' section: --preserve-numbers
\* has the default True, so preserve_numbers is always set; flags is the set
\* of the other switches given on the command line
apply_config_overrides(section, flags) ==
    [ k \in {"preserve_numbers"} \cup flags |-> TRUE ] @@ section

\* the token modes divide processed_token_count by original_token_count
\* without a test: ZeroDivisionError leaves the operation once the file is
\* written
RetentionOf(file_outcome, on_success) ==
    IF file_outcome.result.data.original_token_count = 0
    THEN [Raised EXCEPT !.written = file_outcome.written]
    ELSE Returned(on_success, file_outcome.written)

\* run_preprocessing_only(single_file = file) with the outcome of process_json_file
RunPreprocessingOnlyWith(file_outcome) ==
    IF file_outcome.result.success
    THEN RetentionOf(file_outcome, Success(NoData))
    ELSE file_outcome

run_preprocessing_only(section, file, disk_ok) ==
    RunPreprocessingOnlyWith(
        process_json_file(NewPreprocessorConfig(section), file, disk_ok))

\* batch_process: one result joins the counts of the successful results and
\* the payloads written
BatchStep(acc, r) ==
    IF ~r.result.success THEN acc
    ELSE [ files_processed |-> acc.files_processed + 1,
           total_original |-> acc.total_original + r.result.data.original_token_count,
           total_processed |-> acc.total_processed + r.result.data.processed_token_count,
           written |-> acc.written \o r.written ]

\* batch_process: the loop over the files of the input directory
RECURSIVE BatchLoop(_, _, _, _, _)
BatchLoop(cfg, fs, disk_ok, i, acc) ==
    IF i > Len(fs) THEN acc
    ELSE BatchLoop(cfg, fs, disk_ok, i + 1,
                   BatchStep(acc, process_json_file(cfg, fs[i], disk_ok)))

NewBatch == [files_processed |-> 0, total_original |-> 0, total_processed |-> 0,
             written |-> << >>]

\* batch_process with the state of the loop at its end
BatchProcessWith(fs, loop) ==
    IF fs = << >> THEN Returned(Failure("No JSON files found"), << >>)
    ELSE Returned(Success([ files_processed |-> loop.files_processed,
                            total_files |-> Len(fs),
                            total_original_tokens |-> loop.total_original,
                            total_processed_tokens |-> loop.total_processed ]),
                  loop.written)

batch_process(cfg, fs, disk_ok) ==
    BatchProcessWith(fs, BatchLoop(cfg, fs, disk_ok, 1, NewBatch))

\* run_preprocessing_only without a single file: the overall retention is
\* computed under `total_original_tokens > 0` and the result of batch_process
\* is returned either way
run_preprocessing_only_batch(section, fs, disk_ok) ==
    batch_process(NewPreprocessorConfig(section), fs, disk_ok)

\* run_single_processing after the tokenizer returned: auto-clean reads the
\* file the tokenizer has just written
AutoCleanWith(tokenized, file_outcome) ==
    IF file_outcome.result.success
    THEN RetentionOf([file_outcome EXCEPT !.written = tokenized.written \o @],
                     Success(NoData))
    ELSE Returned(Failure(file_outcome.result.error[1]), tokenized.written)

RunSingleProcessingWith(section, tokenized, disk_ok) ==
    IF tokenized.raised THEN Raised
    ELSE IF ~tokenized.result.success THEN tokenized
    ELSE IF (GetFlag(section, "enabled") \/ GetFlag(section, "auto_clean"))
            /\ GetFlag(section, "auto_clean")
    THEN AutoCleanWith(tokenized,
             process_json_file(NewPreprocessorConfig(section),
                               TokenFile(tokenized.written[1]), disk_ok))
    ELSE Returned(Success(NoData), tokenized.written)

run_single_processing(section, response, disk_ok) ==
    RunSingleProcessingWith(section, tokenizer_process_live_data(response, disk_ok),
                            disk_ok)

(***************************************************************************)
(* The monitoring loops: NepaliTextTokenizer.continuous_monitoring and     *)
(* NepaliTextProcessor.run_continuous_monitoring, statement by statement.  *)
(* monitor holds the frame of the call: the position pc, the argument      *)
(* max_iterations (None or an integer), the counters of the loop, and the  *)
(* numbers of calls of process_live_data and of time.sleep made so far,     *)
(* and the position at which Ctrl+C arrived, if it did.                    *)
(***************************************************************************)
MaxIterations == 2

\* the counters are followed up to this value; the tests of the loop compare
\* them with max_iterations <= MaxIterations only
CounterCap == MaxIterations + 1
Count(n) == IF n < CounterCap THEN n + 1 ELSE CounterCap

\* `if max_iterations and iteration >= max_iterations`: None and 0 are falsy
BoundReached(max_iterations, iteration) ==
    /\ max_iterations # None
    /\ max_iterations[1] # 0
    /\ iteration >= max_iterations[1]

\* `if max_iterations is None or iteration < max_iterations`
SleepDue(max_iterations, iteration) ==
    max_iterations = None \/ iteration < max_iterations[1]

\* (successful_iterations / iteration * 100) if iteration > 0 else 0, as a fraction
success_rate(successful_iterations, iteration) ==
    IF iteration > 0 THEN [num |-> successful_iterations * 100, den |-> iteration]
    ELSE [num |-> 0, den |-> 1]

\* the frame when the call starts
NewMonitor(who, max_iterations) ==
    [ pc |-> "start", who |-> who, max_iterations |-> max_iterations,
      iteration |-> 0, successful_iterations |-> 0,
      calls |-> 0, completed |-> 0, succeeded |-> 0, sleeps |-> 0,
      process_result |-> "none", interrupted |-> FALSE, at |-> "none" ]

\* result.data after the loop, and in the handler of KeyboardInterrupt
MonitoringSummary(m) ==
    IF m.who = "main" THEN Success(NoData)
    ELSE Success([ total_iterations |-> m.iteration,
                   successful_iterations |-> m.successful_iterations,
                   success_rate |-> success_rate(m.successful_iterations, m.iteration) ])
StoppedByUser(m) ==
    IF m.who = "main" THEN Success(NoData)
    ELSE Success([ total_iterations |-> m.iteration,
                   successful_iterations |-> m.successful_iterations,
                   stopped_by_user |-> TRUE ])

\* how a call of process_live_data ended for the caller
CycleKind(tokenized) ==
    IF tokenized.raised THEN "raised"
    ELSE IF tokenized.result.success THEN "success" ELSE "failure"

(***************************************************************************)
(* State.                                                                  *)
(***************************************************************************)
VARIABLES
    config,            \* NepaliTextPreprocessor.config
    cleaning_config,   \* NepaliTextCleaner.config
    op,                \* the operation that returned last, "idle" before a call
    token,             \* argument of a token-level operation
    token_out,         \* Optional[str] returned by preprocess_token
    verdict,           \* bool returned by is_number_token, filter_by_language, ...
    tokens,            \* argument of preprocess_tokens
    result,            \* ProcessingResult returned by preprocess_tokens
    text,              \* argument of clean_text
    cleaned,           \* Optional[str] returned by clean_text(text)
    recleaned,         \* Optional[str] returned by clean_text on the cleaned text
    articles,          \* the JSON list a pipeline operation works on
    env,               \* the answer of the server and of the disk during the call
    outcome,           \* what the caller of a pipeline operation observes
    files,             \* the token files an operation of the application reads
    monitor            \* the frame of continuous_monitoring while it runs

vars == << config, cleaning_config, op, token, token_out, verdict, tokens, result,
           text, cleaned, recleaned, articles, env, outcome, files, monitor >>

tokenVars == << token, token_out, verdict, tokens, result >>
textVars == << text, cleaned, recleaned >>
runVars == << files, monitor >>
batchVars == << articles, env, outcome, runVars >>

\* no call of a pipeline operation has returned
NoOutcome == Returned([success |-> FALSE, error |-> None, data |-> NoData], << >>)
\* no request was sent and no file was written
NoEnvironment == [response |-> "none", disk_ok |-> TRUE]
\* continuous_monitoring is not running
NoMonitor == [pc |-> "none"]

Idle ==
    /\ op = "idle"
    /\ token = << >> /\ token_out = None /\ verdict = FALSE
    /\ tokens = << >> /\ result = NewProcessingResult
    /\ text = << >> /\ cleaned = None /\ recleaned = None
    /\ articles = << >> /\ env = NoEnvironment /\ outcome = NoOutcome
    /\ files = << >> /\ monitor = NoMonitor

(***************************************************************************)
(* The token preprocessor: one action per public operation.                *)
(***************************************************************************)
Init ==
    /\ config \in PreprocessingConfigs
    /\ cleaning_config = default_cleaning_config
    /\ Idle

IsNumberToken ==
    /\ op = "idle"
    /\ \E t \in TokenInputs :
        /\ token' = t
        /\ verdict' = is_number_token(config, t)
    /\ op' = "is_number_token"
    /\ UNCHANGED << config, cleaning_config, token_out, tokens, result, textVars, batchVars >>

FilterByLanguage ==
    /\ op = "idle"
    /\ \E t \in TokenInputs :
        /\ token' = t
        /\ verdict' = filter_by_language(config, t)
    /\ op' = "filter_by_language"
    /\ UNCHANGED << config, cleaning_config, token_out, tokens, result, textVars, batchVars >>

\* preprocess_token called with a token of the set inputs
PreprocessTokenOf(inputs) ==
    /\ op = "idle"
    /\ \E t \in inputs :
        /\ token' = t
        /\ token_out' = preprocess_token(config, t)
    /\ op' = "preprocess_token"
    /\ UNCHANGED << config, cleaning_config, verdict, tokens, result, textVars, batchVars >>

PreprocessToken == PreprocessTokenOf(TokenInputs)

PreprocessTokens ==
    /\ op = "idle"
    /\ \E ts \in TokenListInputs :
        /\ tokens' = ts
        /\ result' = preprocess_tokens(config, ts)
    /\ op' = "preprocess_tokens"
    /\ UNCHANGED << config, cleaning_config, token, token_out, verdict, textVars, batchVars >>

\* the caller has the result; the object, whose configuration no operation
\* changes, takes the next call
Return ==
    /\ op # "idle"
    /\ op' = "idle"
    /\ token' = << >> /\ token_out' = None /\ verdict' = FALSE
    /\ tokens' = << >> /\ result' = NewProcessingResult
    /\ text' = << >> /\ cleaned' = None /\ recleaned' = None
    /\ articles' = << >> /\ env' = NoEnvironment /\ outcome' = NoOutcome
    /\ files' = << >>
    /\ UNCHANGED << config, cleaning_config, monitor >>

Next == IsNumberToken \/ FilterByLanguage \/ PreprocessToken \/ PreprocessTokens \/ Return

Spec == Init /\ [][Next]_vars

(***************************************************************************)
(* The text cleaner.                                                       *)
(***************************************************************************)
\* a 5 २ space danda , ! # ?
TextAlphabet == {97, 53, 2408, 32, 2404, 44, 33, 35, 63}

Txt_Letters9 == << 97, 98, 99, 100, 101, 102, 103, 104, 105 >>    \* abcdefghi
Txt_Letters10 == Txt_Letters9 \o << 106 >>                       \* abcdefghij
Txt_Letters11 == Txt_Letters10 \o << 107 >>
Txt_Nepali10 == << 2325, 2326, 2327, 2328, 2330, 2331, 2332, 2333, 2335, 2336 >>
Txt_Nepali9 == SubSeq(Txt_Nepali10, 1, 9)
\* abcdefghij 50%
Txt_Percent == Txt_Letters10 \o << 32, 53, 48, 37 >>
\* abcdefghij 1,234
Txt_Grouped == Txt_Letters10 \o << 32, 49, 44, 50, 51, 52 >>
\* abcdefghij Rs.,,,5
Txt_Currency == Txt_Letters10 \o << 32, 82, 115, 46, 44, 44, 44, 53 >>
\* abcdefghij ५०  %
Txt_PercentSpaced == Txt_Letters10 \o << 32, 2411, 2406, 32, 32, 37 >>

SampleTexts ==
    { Txt_Letters9, Txt_Letters10, Txt_Letters11, Txt_Nepali9, Txt_Nepali10,
      Txt_Percent, Txt_Grouped, Txt_Currency, Txt_PercentSpaced,
      << 32 >> \o Txt_Letters10 \o << 32 >>, << 32 >> \o Txt_Letters9 \o << 32 >>,
      << 32, 9, 10 >>,                                           \* white space only
      Txt_Letters10 \o << 2405, 32, 32 >> \o Txt_Nepali9,         \* double danda
      << 60, 98, 62 >> \o Txt_Letters10 \o << 60, 47, 98, 62 >>,  \* <b>...</b>
      Txt_Letters10 \o << 32 >> \o Tok_UrlX,
      Txt_Letters10 \o << 32, 97, 64, 98, 46, 99, 111 >>,         \* ... a@b.co
      Txt_Letters10 \o << 33, 33, 33, 33 >>,                      \* ...!!!!
      Txt_Letters10 \o << 46, 46, 46 >>,                          \* ......
      Txt_Letters10 \o << 35, 36, 37 >> \o Txt_Letters9,          \* ...#$%...
      Txt_Letters10 \o << 32, 2404, 32 >> \o Txt_Nepali9,         \* ... danda ...
      Txt_Letters9 \o << 32, 44, 32 >> \o Txt_Nepali9,
      \* abcdefghij ht###tp://x
      Txt_Letters10 \o << 32, 104, 116, 35, 35, 35, 116, 112, 58, 47, 47, 120 >> }

TextInputs == Strings(TextAlphabet, MaxLen) \cup SampleTexts

\* the options of the cleaner with the values an override gives them
CleaningOverrides ==
    { << o, ~default_cleaning_config[o] >> :
        o \in { "preserve_numbers", "normalize_unicode", "remove_extra_whitespace",
                "standardize_punctuation", "remove_urls", "remove_emails",
                "normalize_devanagari_numerals", "remove_html_tags",
                "remove_excessive_punctuation", "preserve_sentence_structure" } }
    \cup { << "min_text_length", 0 >>, << "min_text_length", 3 >>,
           << "max_text_length", 4 >> }

CleaningConfigs ==
    { ApplyOverrides(default_cleaning_config, ovs) :
        ovs \in OverrideSets(CleaningOverrides) }

CleanerInit ==
    /\ config = default_preprocessing_config
    /\ cleaning_config \in CleaningConfigs
    /\ Idle

CleanText ==
    /\ op = "idle"
    /\ \E t \in TextInputs :
        /\ text' = t
        /\ cleaned' = clean_text(cleaning_config, t)
    /\ op' = "clean_text"
    /\ UNCHANGED << config, cleaning_config, tokenVars, batchVars, recleaned >>

\* the caller passes the cleaned text to clean_text once more
CleanAgain ==
    /\ op = "clean_text"
    /\ cleaned # None
    /\ recleaned' = clean_text(cleaning_config, cleaned[1])
    /\ op' = "clean_again"
    /\ UNCHANGED << config, cleaning_config, tokenVars, batchVars, text, cleaned >>

CleanerNext == CleanText \/ CleanAgain \/ Return

CleanerSpec == CleanerInit /\ [][CleanerNext]_vars

(***************************************************************************)
(* The token preprocessor under every setting of its filters, on tokens    *)
(* built from the characters of numbers.                                   *)
(***************************************************************************)
\* 5 ५ % . space
NumericAlphabet == {53, 2411, 37, 46, 32}

NumericInputs == Strings(NumericAlphabet, MaxLen) \cup SampleTokens

FilterFlags ==
    { "language_filtering", "remove_stopwords", "remove_urls", "remove_emails",
      "remove_excessive_special_chars", "normalize_devanagari_numerals",
      "remove_whitespace", "normalize_unicode" }

FilterConfigs ==
    { ApplyOverrides(base, { << o, ~default_preprocessing_config[o] >> : o \in F }) :
        F \in SUBSET FilterFlags,
        base \in { default_preprocessing_config,
                   [default_preprocessing_config EXCEPT !.length_filtering = FALSE],
                   [default_preprocessing_config EXCEPT !.min_token_length = 2,
                                                        !.max_token_length = 1] } }

FilterInit ==
    /\ config \in FilterConfigs
    /\ cleaning_config = default_cleaning_config
    /\ Idle

PreprocessNumericToken == PreprocessTokenOf(NumericInputs)

FilterNext == PreprocessNumericToken \/ Return

FilterSpec == FilterInit /\ [][FilterNext]_vars

(***************************************************************************)
(* The pipeline operations on batches of articles and on lists of tokens.  *)
(***************************************************************************)
\* longest batch of articles enumerated over the article pool
MaxArticles == 2

Art_TitleContent == Article(Num(7), Str(Txt_Letters10), Missing, Str(Tok_Nepal))
Art_ContentOnly == Article(Missing, Missing, Missing, Str(Tok_Nepal \o << 2404 >>))
Art_AllFields == Article(Missing, Str(Tok_Ka), Str(Tok_Kha), Str(Txt_Nepali9))
Art_Short == Article(Missing, Str(<< 97 >>), Missing, Missing)
Art_Blank == Article(Missing, Str(<< 32 >>), Str(<< >>), Missing)
Art_Empty == Article(Missing, Missing, Missing, Missing)
Art_NullTitle == Article(Missing, Null, Str(Txt_Letters10), Missing)
Art_NumberTitle == Article(Missing, Num(5), Str(Txt_Letters10), Missing)

ArticlePool ==
    { Art_TitleContent, Art_ContentOnly, Art_AllFields,
      Art_Short, Art_Blank, Art_Empty, Art_NullTitle, Art_NumberTitle, NotAMapping }

\* a batch with an article of every well-formed kind
BatchExample ==
    << Art_Empty, Art_AllFields, Art_Short, Art_TitleContent, Art_Blank,
       Art_ContentOnly >>

ArticleBatches == Lists(ArticlePool, MaxArticles) \cup { BatchExample }

\* what the server may answer
Responses ==
    { [kind |-> k, items |-> << >>] :
        k \in { "network_error", "invalid_json", "not_a_list" } }
    \cup { [kind |-> "list", items |-> b] : b \in ArticleBatches }

\* the JSON values the token lists are built from
JsonTokenPool == { Str(Tok_Ka), Str(Tok_Hashes), Num(5), Null }

JsonTokenLists == Lists(JsonTokenPool, MaxTokens)

PipelineCleaningConfigs ==
    { default_cleaning_config,
      [default_cleaning_config EXCEPT !.min_text_length = 0],
      [default_cleaning_config EXCEPT !.max_text_length = 4],
      [default_cleaning_config EXCEPT !.remove_extra_whitespace = FALSE] }

\* the defaults, and a preprocessor with the steps that read a token before
\* remove_noise returns switched off
PipelinePreprocessingConfigs ==
    { default_preprocessing_config,
      [default_preprocessing_config EXCEPT
          !.normalize_unicode = FALSE, !.remove_whitespace = FALSE,
          !.standardize_punctuation = FALSE, !.preserve_numbers = FALSE,
          !.remove_urls = FALSE, !.remove_emails = FALSE,
          !.remove_excessive_special_chars = FALSE] }

PipelineInit ==
    /\ \/ /\ config \in PipelinePreprocessingConfigs
          /\ cleaning_config = default_cleaning_config
       \/ /\ config = default_preprocessing_config
          /\ cleaning_config \in PipelineCleaningConfigs
    /\ Idle

ProcessArticles ==
    /\ op = "idle"
    /\ \E b \in ArticleBatches :
        /\ articles' = b
        /\ outcome' = Returned(process_articles(cleaning_config, b), << >>)
    /\ op' = "process_articles"
    /\ UNCHANGED << config, cleaning_config, tokenVars, textVars, env, runVars >>

CleanerProcessLiveData ==
    /\ op = "idle"
    /\ \E r \in Responses, disk_ok \in BOOLEAN :
        /\ articles' = r.items
        /\ env' = [response |-> r.kind, disk_ok |-> disk_ok]
        /\ outcome' = cleaner_process_live_data(cleaning_config, r, disk_ok)
    /\ op' = "cleaner_process_live_data"
    /\ UNCHANGED << config, cleaning_config, tokenVars, textVars, runVars >>

TokenizerProcessLiveData ==
    /\ op = "idle"
    /\ \E r \in Responses, disk_ok \in BOOLEAN :
        /\ articles' = r.items
        /\ env' = [response |-> r.kind, disk_ok |-> disk_ok]
        /\ outcome' = tokenizer_process_live_data(r, disk_ok)
    /\ op' = "tokenizer_process_live_data"
    /\ UNCHANGED << config, cleaning_config, tokenVars, textVars, runVars >>

PreprocessTokensJson ==
    /\ op = "idle"
    /\ \E items \in JsonTokenLists :
        /\ tokens' = items
        /\ outcome' = Returned(preprocess_tokens_json(config, items), << >>)
    /\ op' = "preprocess_tokens_json"
    /\ UNCHANGED << config, cleaning_config, token, token_out, verdict, result,
                    textVars, articles, env, runVars >>

PipelineNext ==
    \/ ProcessArticles
    \/ CleanerProcessLiveData
    \/ TokenizerProcessLiveData
    \/ PreprocessTokensJson
    \/ Return

PipelineSpec == PipelineInit /\ [][PipelineNext]_vars

(***************************************************************************)
(* Single steps of the cleaner and of the preprocessor, called directly.   *)
(***************************************************************************)
\* क fifty times and fifty-one times, 5 fifty-one times
Tok_Long50 == [k \in 1..50 |-> 2325]
Tok_Long51 == [k \in 1..51 |-> 2325]
Tok_Digits51 == [k \in 1..51 |-> 53]

LengthInputs == TokenInputs \cup { Tok_Long50, Tok_Long51, Tok_Digits51 }

\* the length filter on and off, with and without the numeric veto, with the
\* default bounds and with bounds the short tokens reach
LengthConfigs ==
    { [default_preprocessing_config EXCEPT
          !.length_filtering = f, !.preserve_numbers = p,
          !.min_token_length = b[1], !.max_token_length = b[2]] :
        f \in BOOLEAN, p \in BOOLEAN,
        b \in { << default_preprocessing_config.min_token_length,
                   default_preprocessing_config.max_token_length >>,
                << 2, 3 >> } }

WhitespaceConfigs ==
    { [default_cleaning_config EXCEPT
          !.remove_extra_whitespace = w, !.preserve_sentence_structure = s,
          !.preserve_numbers = p] :
        w \in BOOLEAN, s \in BOOLEAN, p \in BOOLEAN }

StepInit ==
    /\ \/ config \in LengthConfigs /\ cleaning_config = default_cleaning_config
       \/ config = default_preprocessing_config /\ cleaning_config \in WhitespaceConfigs
    /\ Idle

FilterByLength ==
    /\ op = "idle"
    /\ \E t \in LengthInputs :
        /\ token' = t
        /\ verdict' = filter_by_length(config, t)
    /\ op' = "filter_by_length"
    /\ UNCHANGED << config, cleaning_config, token_out, tokens, result, textVars, batchVars >>

\* is_number_context(text, start, end); token keeps the segment text[start:end]
IsNumberContext ==
    /\ op = "idle"
    /\ \E t \in TokenInputs : \E start \in {0, 1}, back \in {0, 1} :
        /\ start <= Len(t) - back
        /\ text' = t
        /\ token' = Slice(t, start + 1, Len(t) - back)
        /\ verdict' = is_number_context(cleaning_config, t, start, Len(t) - back)
    /\ op' = "is_number_context"
    /\ UNCHANGED << config, cleaning_config, token_out, tokens, result, cleaned,
                    recleaned, batchVars >>

\* normalize_whitespace(text) of the cleaner; cleaned keeps the string returned
NormalizeWhitespace ==
    /\ op = "idle"
    /\ \E t \in TextInputs :
        /\ text' = t
        /\ cleaned' = Some(cleaner_normalize_whitespace(cleaning_config, t))
    /\ op' = "normalize_whitespace"
    /\ UNCHANGED << config, cleaning_config, tokenVars, batchVars, recleaned >>

StepNext == FilterByLength \/ IsNumberContext \/ NormalizeWhitespace \/ Return

StepSpec == StepInit /\ [][StepNext]_vars

(***************************************************************************)
(* Properties.                                                             *)
(***************************************************************************)
(***************************************************************************)
(* The cleaner's standardize_punctuation on runs of punctuation marks.     *)
(***************************************************************************)
MaxRun == 4

\* . ! danda double-danda # a
PunctuationAlphabet == {46, 33, 2404, 2405, 35, 97}

PunctuationInputs == Strings(PunctuationAlphabet, MaxRun)

PunctuationConfigs ==
    { [default_cleaning_config EXCEPT
          !.standardize_punctuation = s, !.remove_excessive_punctuation = e] :
        s \in BOOLEAN, e \in BOOLEAN }

PunctuationInit ==
    /\ config = default_preprocessing_config
    /\ cleaning_config \in PunctuationConfigs
    /\ Idle

\* standardize_punctuation(text) of the cleaner; cleaned keeps the string returned
StandardizePunctuation ==
    /\ op = "idle"
    /\ \E t \in PunctuationInputs :
        /\ text' = t
        /\ cleaned' = Some(cleaner_standardize_punctuation(cleaning_config, t))
    /\ op' = "standardize_punctuation"
    /\ UNCHANGED << config, cleaning_config, tokenVars, batchVars, recleaned >>

PunctuationNext == StandardizePunctuation \/ Return

PunctuationSpec == PunctuationInit /\ [][PunctuationNext]_vars

(***************************************************************************)
(* preprocess_token on tokens that hold a danda or a double danda.         *)
(***************************************************************************)
\* danda double-danda 5 % a
DandaAlphabet == {2404, 2405, 53, 37, 97}

DandaInputs ==
    Strings(DandaAlphabet, MaxLen)
    \cup { << 53, 2404, 53 >>, << 53, 2405, 37 >>, << 2404, 2404, 2404 >>,
           << 97, 98, 99, 2404 >>, << 2325, 2404 >> }       \* 5।5 5॥% ।।। abc। क।

PhaseConfigs ==
    { [default_preprocessing_config EXCEPT
          !.standardize_punctuation = s, !.language_filtering = l,
          !.preserve_numbers = p] :
        s \in BOOLEAN, l \in BOOLEAN, p \in BOOLEAN }

PhaseInit ==
    /\ config \in PhaseConfigs
    /\ cleaning_config = default_cleaning_config
    /\ Idle

PreprocessDandaToken == PreprocessTokenOf(DandaInputs)

PhaseNext == PreprocessDandaToken \/ Return

PhaseSpec == PhaseInit /\ [][PhaseNext]_vars

(***************************************************************************)
(* The token modes of the application: a preprocessor built from the       *)
(* 'preprocessing' section that main.py passes, run on token files.        *)
(***************************************************************************)
MaxFiles == 2

\* a config.json that spells out every option of the section
FullSection == [enabled |-> TRUE] @@ default_preprocessing_config

\* the section of config.json: absent (get_default_config has none), holding
\* 'enabled' only, complete, and complete but for one option
FileSections ==
    { << >>, [enabled |-> TRUE], FullSection,
      [FullSection EXCEPT !.remove_duplicates = FALSE],
      [ k \in DOMAIN FullSection \ {"max_token_length"} |-> FullSection[k] ] }

\* the sections main.py passes to the preprocessor, and no mapping at all
AppSections ==
    { apply_config_overrides(section, flags) :
        section \in FileSections,
        flags \in SUBSET {"auto_clean", "remove_stopwords",
                          "normalize_devanagari_numerals"} }
    \cup { << >> }

FilePool == { Tok_Ka, Tok_Hashes }
FileTokenLists == Lists(FilePool, MaxTokens)
FileInputs ==
    { Unreadable, EmptyObject, NoTokensField } \cup { TokenFile(l) : l \in FileTokenLists }

BatchFilePool ==
    { Unreadable, TokenFile(<< >>), TokenFile(<< Tok_Ka, Tok_Ka >>),
      TokenFile(<< Tok_Ka, Tok_Hashes >>) }
BatchInputs == Lists(BatchFilePool, MaxFiles)

AppResponses ==
    { [kind |-> k, items |-> << >>] : k \in { "network_error", "not_a_list" } }
    \cup { [kind |-> "list", items |-> b] :
             b \in Lists({ Art_TitleContent, Art_Blank, Art_NullTitle }, MaxArticles) }

AppInit ==
    /\ config \in { NewPreprocessorConfig(section) : section \in AppSections }
    /\ cleaning_config = default_cleaning_config
    /\ Idle

PreprocessTokensWith ==
    /\ op = "idle"
    /\ \E ts \in FileTokenLists :
        /\ tokens' = ts
        /\ outcome' = Returned(preprocess_tokens_with(config, ts), << >>)
    /\ op' = "preprocess_tokens_with"
    /\ UNCHANGED << config, cleaning_config, token, token_out, verdict, result,
                    textVars, articles, env, runVars >>

ProcessJsonFile ==
    /\ op = "idle"
    /\ \E f \in FileInputs, disk_ok \in BOOLEAN :
        /\ files' = << f >>
        /\ env' = [response |-> "none", disk_ok |-> disk_ok]
        /\ outcome' = process_json_file(config, f, disk_ok)
    /\ op' = "process_json_file"
    /\ UNCHANGED << config, cleaning_config, tokenVars, textVars, articles, monitor >>

RunPreprocessingOnly ==
    /\ op = "idle"
    /\ \E f \in FileInputs, disk_ok \in BOOLEAN :
        /\ files' = << f >>
        /\ env' = [response |-> "none", disk_ok |-> disk_ok]
        /\ outcome' = run_preprocessing_only(config, f, disk_ok)
    /\ op' = "run_preprocessing_only"
    /\ UNCHANGED << config, cleaning_config, tokenVars, textVars, articles, monitor >>

RunPreprocessingOnlyBatch ==
    /\ op = "idle"
    /\ \E fs \in BatchInputs, disk_ok \in BOOLEAN :
        /\ files' = fs
        /\ env' = [response |-> "none", disk_ok |-> disk_ok]
        /\ outcome' = run_preprocessing_only_batch(config, fs, disk_ok)
    /\ op' = "run_preprocessing_only_batch"
    /\ UNCHANGED << config, cleaning_config, tokenVars, textVars, articles, monitor >>

RunSingleProcessing ==
    /\ op = "idle"
    /\ \E r \in AppResponses, disk_ok \in BOOLEAN :
        /\ articles' = r.items
        /\ env' = [response |-> r.kind, disk_ok |-> disk_ok]
        /\ outcome' = run_single_processing(config, r, disk_ok)
    /\ op' = "run_single_processing"
    /\ UNCHANGED << config, cleaning_config, tokenVars, textVars, runVars >>

AppNext ==
    \/ PreprocessTokensWith \/ ProcessJsonFile \/ RunPreprocessingOnly
    \/ RunPreprocessingOnlyBatch \/ RunSingleProcessing \/ Return

AppSpec == AppInit /\ [][AppNext]_vars

(***************************************************************************)
(* MonitorSpec: one call of continuous_monitoring (who = "tokenizer") or   *)
(* of run_continuous_monitoring (who = "main") at a time, one statement    *)
(* per step.  The service answers each cycle as it likes; the user may     *)
(* press Ctrl+C between any two statements, once per call.                 *)
(***************************************************************************)
MonitorCallers == { "tokenizer", "main" }
MaxIterationsInputs == { None } \cup { Some(n) : n \in 0..MaxIterations }
MonitorResponses ==
    { [kind |-> "network_error", items |-> << >>],
      [kind |-> "list", items |-> << Art_TitleContent >>],
      [kind |-> "list", items |-> << Art_Blank >>],
      [kind |-> "list", items |-> << Art_NullTitle >>] }

\* the positions inside the try block
InsideTry == { "test", "call", "in_cycle", "returned", "counted", "sleep_test",
               "sleep", "summary" }
Running == monitor.pc \in { "start" } \cup InsideTry

MonitorInit ==
    /\ config = default_preprocessing_config
    /\ cleaning_config = default_cleaning_config
    /\ Idle

monitorFrame == << config, cleaning_config, tokenVars, textVars, files >>

\* the call, and the statements before `try`
StartMonitoring ==
    /\ op = "idle" /\ monitor = NoMonitor
    /\ \E who \in MonitorCallers, max_iterations \in MaxIterationsInputs :
        monitor' = NewMonitor(who, max_iterations)
    /\ op' = "monitoring"
    /\ UNCHANGED << monitorFrame, articles, env, outcome >>

EnterTry ==
    /\ monitor.pc = "start"
    /\ monitor' = [monitor EXCEPT !.pc = "test"]
    /\ UNCHANGED << monitorFrame, op, articles, env, outcome >>

\* `if max_iterations and iteration >= max_iterations: break`
TestBound ==
    /\ monitor.pc = "test"
    /\ monitor' = [monitor EXCEPT !.pc =
          IF BoundReached(monitor.max_iterations, monitor.iteration)
          THEN "summary" ELSE "call"]
    /\ UNCHANGED << monitorFrame, op, articles, env, outcome >>

\* process_live_data(endpoint) is entered
CallProcessLiveData ==
    /\ monitor.pc = "call"
    /\ monitor' = [monitor EXCEPT !.pc = "in_cycle", !.calls = Count(@)]
    /\ UNCHANGED << monitorFrame, op, articles, env, outcome >>

\* what the caller does when process_live_data ends: an exception leaves
\* the loop, through `except Exception` in the tokenizer and out of the call in main
AfterCycle(m, kind) ==
    IF kind = "raised"
    THEN [ monitor |-> [m EXCEPT !.pc = "done", !.process_result = kind],
           op |-> IF m.who = "main" THEN "run_continuous_monitoring"
                  ELSE "continuous_monitoring",
           outcome |-> IF m.who = "main" THEN Raised
                       ELSE Returned(Failure("Error in continuous monitoring"), << >>) ]
    ELSE [ monitor |-> [m EXCEPT !.pc = "returned", !.process_result = kind,
                                 !.completed = Count(@),
                                 !.succeeded = IF kind = "success" THEN Count(@) ELSE @],
           op |-> "monitoring",
           outcome |-> NoOutcome ]

AfterCycleStep(after) ==
    /\ monitor' = after.monitor
    /\ op' = after.op
    /\ outcome' = after.outcome

ProcessLiveDataEnds ==
    /\ monitor.pc = "in_cycle"
    /\ \E r \in MonitorResponses, disk_ok \in BOOLEAN :
        /\ articles' = r.items
        /\ env' = [response |-> r.kind, disk_ok |-> disk_ok]
        /\ AfterCycleStep(AfterCycle(monitor,
               CycleKind(tokenizer_process_live_data(r, disk_ok))))
    /\ UNCHANGED monitorFrame

\* `if process_result.success: successful_iterations += 1`
CountSuccess ==
    /\ monitor.pc = "returned"
    /\ monitor' = [monitor EXCEPT !.pc = "counted",
          !.successful_iterations =
              IF monitor.process_result = "success" /\ monitor.who = "tokenizer"
              THEN Count(@) ELSE @]
    /\ UNCHANGED << monitorFrame, op, articles, env, outcome >>

\* `iteration += 1`
CountIteration ==
    /\ monitor.pc = "counted"
    /\ monitor' = [monitor EXCEPT !.pc = "sleep_test", !.iteration = Count(@)]
    /\ UNCHANGED << monitorFrame, op, articles, env, outcome >>

\* `if max_iterations is None or iteration < max_iterations: time.sleep(interval)`
TestSleep ==
    /\ monitor.pc = "sleep_test"
    /\ monitor' =
          IF SleepDue(monitor.max_iterations, monitor.iteration)
          THEN [monitor EXCEPT !.pc = "sleep", !.sleeps = Count(@)]
          ELSE [monitor EXCEPT !.pc = "test"]
    /\ UNCHANGED << monitorFrame, op, articles, env, outcome >>

\* time.sleep(interval) returns
WakeUp ==
    /\ monitor.pc = "sleep"
    /\ monitor' = [monitor EXCEPT !.pc = "test"]
    /\ UNCHANGED << monitorFrame, op, articles, env, outcome >>

\* after `break`: the summary is stored and the call returns
MonitoringReturns ==
    /\ monitor.pc = "summary"
    /\ monitor' = [monitor EXCEPT !.pc = "done"]
    /\ op' = IF monitor.who = "main" THEN "run_continuous_monitoring"
             ELSE "continuous_monitoring"
    /\ outcome' = Returned(MonitoringSummary(monitor), << >>)
    /\ UNCHANGED << monitorFrame, articles, env >>

\* KeyboardInterrupt: caught inside the try block, not before it
KeyboardInterrupt ==
    /\ Running
    /\ monitor' = [monitor EXCEPT !.pc = "done", !.interrupted = TRUE, !.at = monitor.pc]
    /\ op' = IF monitor.who = "main" THEN "run_continuous_monitoring"
             ELSE "continuous_monitoring"
    /\ outcome' = IF monitor.pc \in InsideTry
                  THEN Returned(StoppedByUser(monitor), << >>) ELSE Raised
    /\ UNCHANGED << monitorFrame, articles, env >>

\* the caller takes the result; the next call may start
MonitorDone ==
    /\ monitor.pc = "done"
    /\ monitor' = NoMonitor
    /\ op' = "idle"
    /\ articles' = << >> /\ env' = NoEnvironment /\ outcome' = NoOutcome
    /\ UNCHANGED monitorFrame

\* the statements of the program, without the user
MonitorStep ==
    \/ EnterTry \/ TestBound \/ CallProcessLiveData \/ ProcessLiveDataEnds
    \/ CountSuccess \/ CountIteration \/ TestSleep \/ WakeUp \/ MonitoringReturns

MonitorNext == StartMonitoring \/ MonitorStep \/ KeyboardInterrupt \/ MonitorDone

MonitorSpec == MonitorInit /\ [][MonitorNext]_vars

\* the interpreter always executes the next statement, the service always
\* answers or times out, and the sleep always ends
MonitorFairSpec == MonitorSpec /\ WF_vars(MonitorStep)

\* whether the string w occurs in s as a contiguous substring
Occurs(w, s) == \E i \in 1..(Len(s) - Len(w) + 1) : StartsWithAt(s, i, w)

\* C1 (as stated, refuted): with preserve_numbers enabled, preprocess_token
\* returns every token that is_number_token classifies as numeric, under every
\* setting of the filters, unchanged except for digit normalization.
C1_NumericTokenUnchanged ==
    (op = "preprocess_token" /\ config.preserve_numbers /\ is_number_token(config, token))
        => token_out = Some(IF config.normalize_devanagari_numerals
                            THEN DevanagariToArabic(token) ELSE token)

\* C1 (amended): with preserve_numbers enabled, preprocess_token returns every
\* token that is_number_token classifies as numeric, under every setting of the
\* language, length, stopword, URL, email and special-character filters; the
\* result is the token after the enabled Unicode and white space normalization
\* (trimmed, runs of white space collapsed to one space), with no punctuation
\* standardized, and with its digits normalized when that is enabled.
C1_NumericVeto ==
    (op = "preprocess_token" /\ config.preserve_numbers /\ is_number_token(config, token))
        => LET nfc == IF config.normalize_unicode THEN NFC(token) ELSE token
               normal == IF config.remove_whitespace
                         THEN Strip(CollapseWhitespace(nfc)) ELSE nfc
           IN  token_out = Some(IF config.normalize_devanagari_numerals
                                THEN DevanagariToArabic(normal) ELSE normal)

\* C1 witness: the Devanagari percentage survives with every filter against it
C1_Witness ==
    /\ op = "preprocess_token" /\ token = Tok_Pct
    /\ config.language_filtering /\ config.length_filtering
    /\ config.min_token_length > config.max_token_length
    /\ config.remove_stopwords /\ config.remove_excessive_special_chars
    /\ config.normalize_devanagari_numerals
    /\ token_out = Some(Tok_PctArabic)

\* the numeric segments of a text: the substrings that one of the cleaner's
\* number patterns matches in their entirety
NumericSegments(t) ==
    { SubSeq(t, a, b) : a \in 1..Len(t), b \in 1..Len(t) } \cap
    { w \in { SubSeq(t, a, b) : a \in 1..Len(t), b \in 1..Len(t) } :
        /\ w # << >>
        /\ \E i \in cleaner_number_patterns : NumberPatternMatches(i, w) }

\* C2 (refuted by the code): with preserve_numbers enabled, every numeric
\* segment of the input of clean_text appears in a non-absent result contiguously
\* and in order, modulo digit normalization.
C2_NumericContextPreserved ==
    (op = "clean_text" /\ cleaning_config.preserve_numbers /\ cleaned # None)
        => \A w \in NumericSegments(text) :
            /\ is_number_context(cleaning_config, w, 0, Len(w))
            /\ Occurs(cleaner_normalize_devanagari_numerals(cleaning_config, w), cleaned[1])

\* the seven categories of C3, each as the set of the strings of its shape
C3_Digits(s) == s # << >> /\ \A k \in 1..Len(s) : IsDigit(s[k])
C3_OptDigits(s) == \A k \in 1..Len(s) : IsDigit(s[k])
C3_Spaces(s) == \A k \in 1..Len(s) : IsSpace(s[k])
\* digits, an optional period, optional digits, optional white space: s[1..e]
C3_Head(s, e) ==
    \E a \in 1..e :
        /\ C3_Digits(SubSeq(s, 1, a))
        /\ \E b \in {a, a + 1} :
            /\ b <= e
            /\ b = a + 1 => s[b] = 46
            /\ \E c \in b..e :
                /\ C3_OptDigits(Slice(s, b + 1, c))
                /\ C3_Spaces(Slice(s, c + 1, e))
C3_Percentage(s) == Len(s) >= 2 /\ s[Len(s)] = 37 /\ C3_Head(s, Len(s) - 1)
C3_Measurement(s) ==
    \E u \in Units :
        /\ Len(s) > Len(u)
        /\ SubSeq(s, Len(s) - Len(u) + 1, Len(s)) = u
        /\ C3_Head(s, Len(s) - Len(u))
C3_Currency(s) ==
    \E p \in { << 2352, 2369 >>, << 2352, 2369, 46 >>, << 82, 115 >>, << 82, 115, 46 >> } :
        /\ StartsWithAt(s, 1, p)
        /\ \E a \in Len(p)..Len(s) : \E b \in (a + 1)..Len(s) :
            /\ C3_Spaces(Slice(s, Len(p) + 1, a))
            /\ \A k \in (a + 1)..b : IsDigit(s[k]) \/ s[k] = 44
            /\ \/ b = Len(s)
               \/ C3_OptDigits(Slice(s, b + 1, Len(s)))
               \/ s[b + 1] = 46 /\ C3_OptDigits(Slice(s, b + 2, Len(s)))
C3_Year(s) ==
    /\ Len(s) = 4 /\ IsDigit(s[3]) /\ IsDigit(s[4])
    /\ \/ s[1] = 49 /\ s[2] = 57
       \/ s[1] = 50 /\ s[2] = 48
       \/ s[1] = 2408 /\ s[2] = 2406
C3_Decimal(s) ==
    \E d \in 2..(Len(s) - 1) :
        s[d] = 46 /\ C3_Digits(SubSeq(s, 1, d - 1)) /\ C3_Digits(SubSeq(s, d + 1, Len(s)))
C3_Grouped(s) ==
    \E a \in 1..3 :
        /\ a <= Len(s) /\ C3_Digits(SubSeq(s, 1, a))
        /\ (Len(s) - a) % 4 = 0
        /\ \A k \in (a + 1)..Len(s) :
            IF (k - a) % 4 = 1 THEN s[k] = 44 ELSE IsDigit(s[k])
C3_Integer(s) == C3_Digits(s)
C3_Numeric(s) ==
    \/ C3_Percentage(s) \/ C3_Currency(s) \/ C3_Measurement(s) \/ C3_Year(s)
    \/ C3_Decimal(s) \/ C3_Grouped(s) \/ C3_Integer(s)

\* every Devanagari digit replaced by the ASCII digit and the reverse
SwapScript(s) ==
    Flatten([k \in 1..Len(s) |->
                << (IF IsDevanagariDigit(s[k]) THEN s[k] - 2358
                    ELSE IF IsAsciiDigit(s[k]) THEN s[k] + 2358 ELSE s[k]) >>],
            1, Len(s))

\* C3: is_number_token is true iff preserve_numbers is enabled and the trimmed
\* token has, in its entirety, the shape of one of the seven categories; the two
\* digit scripts are interchangeable; digits followed by letters that are no unit
\* are not numeric.
C3_IsNumberTokenFullMatch ==
    op = "is_number_token" =>
        /\ verdict = (config.preserve_numbers /\ C3_Numeric(Strip(token)))
        /\ verdict = is_number_token(config, SwapScript(token))
        /\ (Len(token) >= 2 /\ IsDigit(token[1]) /\ token[Len(token)] = 97) => ~verdict

\* C3 witness: a token that only contains a number is not numeric, with
\* preserve_numbers enabled
C3_Witness ==
    /\ op = "is_number_token" /\ config.preserve_numbers
    /\ token = << 53, 107, 103, 115 >> /\ ~verdict

\* C4: with language_filtering enabled a non-numeric token is admitted iff it
\* contains a code point of U+0900..U+097F or consists of Latin letters only and
\* is longer than 2; with language_filtering disabled every token is admitted.
C4_LanguageAdmissibility ==
    op = "filter_by_language" =>
        /\ ~config.language_filtering => verdict
        /\ (config.language_filtering /\ ~is_number_token(config, token)) =>
            verdict = ( \/ \E k \in 1..Len(token) : token[k] \in 2304..2431
                        \/ /\ Len(token) > 2
                           /\ \A k \in 1..Len(token) :
                                token[k] \in 65..90 \/ token[k] \in 97..122 )

\* C4 witness: a Latin word of length 2 is rejected with the filter enabled
C4_Witness ==
    /\ op = "filter_by_language" /\ config.language_filtering
    /\ token = << 116, 104 >> /\ ~verdict

\* C5: under the default configuration the scenario list yields नेपाल, २०२४, the;
\* every non-numeric token with a URL shape or a run of 3 or more symbols is
\* rejected.
C5_Scenario ==
    /\ (op = "preprocess_tokens" /\ config = default_preprocessing_config
            /\ tokens = Scenario)
        => result.success /\ result.tokens = << Tok_Nepal, Tok_Year, Tok_The >>
    /\ (op = "preprocess_token" /\ config = default_preprocessing_config
            /\ ~is_number_token(config, token)
            /\ (UrlSearch(token) \/ ExcessiveSpecialSearch(token)))
        => token_out = None
    /\ (op = "preprocess_token" /\ config = default_preprocessing_config
            /\ token \in { Tok_Nepal, Tok_Year, Tok_The })
        => token_out = Some(token)

\* C5 witness: the scenario list has been processed under the default
\* configuration
C5_Witness ==
    /\ op = "preprocess_tokens" /\ config = default_preprocessing_config
    /\ tokens = Scenario /\ result.processed_count = 3 /\ result.removed_count = 3

\* the processed forms of the tokens that survive, in input order
RECURSIVE C6_Survivors(_, _)
C6_Survivors(cfg, toks) ==
    IF toks = << >> THEN << >>
    ELSE preprocess_token(cfg, Head(toks)) \o C6_Survivors(cfg, Tail(toks))
\* the position of the first occurrence of x in xs
C6_First(xs, x) == CHOOSE i \in 1..Len(xs) : xs[i] = x /\ \A j \in 1..(i - 1) : xs[j] # x

\* C6: with remove_duplicates enabled the returned tokens hold no two equal
\* elements and are the surviving processed tokens in order of first occurrence;
\* with it disabled every survivor is kept.
C6_Deduplication ==
    op = "preprocess_tokens" =>
        LET surv == C6_Survivors(config, tokens)
            out == result.tokens
        IN  /\ ~config.remove_duplicates => out = surv
            /\ config.remove_duplicates =>
                /\ \A i, j \in 1..Len(out) : i # j => out[i] # out[j]
                /\ { out[i] : i \in 1..Len(out) } = { surv[i] : i \in 1..Len(surv) }
                /\ \A i, j \in 1..Len(out) :
                    i < j => C6_First(surv, out[i]) < C6_First(surv, out[j])
            /\ (tokens = DedupExample /\ config = default_preprocessing_config)
                => out = << Tok_Ka, Tok_Kha, Tok_Ga >>
            /\ (tokens = << Tok_Year, Tok_YearArabic >> /\ config.remove_duplicates
                    /\ config.normalize_devanagari_numerals)
                => out = << Tok_YearArabic >>

\* C6 witness: two tokens that are equal only after digit normalization
C6_Witness ==
    /\ op = "preprocess_tokens" /\ tokens = << Tok_Year, Tok_YearArabic >>
    /\ config.remove_duplicates /\ config.normalize_devanagari_numerals
    /\ result.tokens = << Tok_YearArabic >>

C8_CleanTextResult ==
    op = "clean_text" =>
        /\ (\A k \in 1..Len(text) : IsSpace(text[k])) => cleaned = None
        /\ cleaned # None =>
            LET r == cleaned[1]
            IN  /\ r # << >>
                /\ ~IsSpace(r[1]) /\ ~IsSpace(r[Len(r)])
                /\ cleaning_config.min_text_length <= Len(r)
                /\ Len(r) <= cleaning_config.max_text_length

\* C8 witness: a text with white space at both ends is cleaned while white
\* space normalization is disabled
C8_Witness ==
    /\ op = "clean_text" /\ ~cleaning_config.remove_extra_whitespace
    /\ text = << 32 >> \o Txt_Letters10 \o << 32 >>
    /\ cleaned = Some(Txt_Letters10)

\* a text without removable noise: letters only
C9_NoNoise(t) ==
    \A k \in 1..Len(t) : IsLatin(t[k]) \/ (IsDevanagariWord(t[k]) /\ ~IsDigit(t[k]))

\* C9 (refuted by the code): under the default configuration a text without
\* removable noise is kept iff its length lies within
\* [min_text_length, max_text_length].
C9_LengthBoundary ==
    (op = "clean_text" /\ cleaning_config = default_cleaning_config /\ C9_NoNoise(text))
        => ( cleaned # None <=>
                /\ default_cleaning_config.min_text_length <= Len(text)
                /\ Len(text) <= default_cleaning_config.max_text_length )

\* C10 (refuted by the code): under the default configuration every non-absent
\* result of clean_text is a fixed point of clean_text.
C10_Idempotent ==
    (op = "clean_again" /\ cleaning_config = default_cleaning_config)
        => recleaned = cleaned

\* the data dictionary of the ProcessingResult the last call returned
LastData == outcome.result.data

\* process_articles returned a result with success set
ArticlesSucceeded ==
    op = "process_articles" /\ ~outcome.raised /\ outcome.result.success

\* C11 as stated: for every batch process_articles returns success for,
\* retention_rate equals cleaned_count / original_count * 100, lies in [0, 100],
\* is computed without a division by zero, and is 0 exactly when
\* original_count is 0
C11_ZeroOnlyWhenNothingCounted ==
    ArticlesSucceeded =>
        LET rate == LastData.retention_rate
        IN  /\ rate.den > 0
            /\ LastData.original_count > 0 =>
                   rate.num * LastData.original_count
                       = LastData.cleaned_count * 100 * rate.den
            /\ 0 <= rate.num /\ rate.num <= 100 * rate.den
            /\ rate.num = 0 <=> LastData.original_count = 0

\* C11: for every batch process_articles returns success for, retention_rate
\* equals cleaned_count / original_count * 100, lies in [0, 100], is computed
\* without a division by zero (it is the integer 0 when original_count is 0),
\* and is 0 exactly when cleaned_count is 0
C11_RetentionRate ==
    ArticlesSucceeded =>
        LET rate == LastData.retention_rate
        IN  /\ rate.den > 0
            /\ LastData.original_count > 0 =>
                   rate.num * LastData.original_count
                       = LastData.cleaned_count * 100 * rate.den
            /\ LastData.original_count = 0 => rate.num = 0
            /\ 0 <= rate.num /\ rate.num <= 100 * rate.den
            /\ rate.num = 0 <=> LastData.cleaned_count = 0

\* a batch in which some but not all of the counted articles were cleaned
C11_Witness ==
    /\ ArticlesSucceeded
    /\ 0 < LastData.cleaned_count
    /\ LastData.cleaned_count < LastData.original_count

\* the fields of an article that are present and non-empty, in the order
\* title, description, content
C12_NonEmpty(v) == v.kind = "str" /\ v.str # << >>
C12_Present(article) ==
    SelectSeq(<< article.title, article.description, article.content >>, C12_NonEmpty)

\* the present fields joined by single spaces
C12_Combined(article) ==
    LET p == C12_Present(article)
    IN  CASE Len(p) = 0 -> << >>
          [] Len(p) = 1 -> p[1].str
          [] Len(p) = 2 -> p[1].str \o << 32 >> \o p[2].str
          [] Len(p) = 3 -> p[1].str \o << 32 >> \o p[2].str \o << 32 >> \o p[3].str

\* the positions of the articles with at least one present field
C12_Counted == { i \in 1..Len(articles) : C12_Present(articles[i]) # << >> }

\* the positions of the counted articles clean_text returns a text for
C12_Emitted ==
    { i \in C12_Counted :
        clean_text(cleaning_config, C12_Combined(articles[i])) # None }

\* the k-th smallest element of a set of positions
C12_Nth(S, k) == CHOOSE i \in S : Cardinality({ j \in S : j < i }) = k - 1

\* C12: in a successful process_articles the combined text of an article is its
\* present, non-empty title, description and content joined by single spaces in
\* this order; original_count is the number of articles with such a field; an
\* article is emitted and counted in cleaned_count iff clean_text returns a
\* text for its combined text; cleaned_count = len(articles) <= original_count
\* <= len(input); the records keep the order of the input and carry
\* original_length = len(combined text) and no cleaned text
C12_CountingAndAssembly ==
    ArticlesSucceeded =>
        /\ LastData.original_count = Cardinality(C12_Counted)
        /\ LastData.cleaned_count = Cardinality(C12_Emitted)
        /\ LastData.cleaned_count = Len(LastData.articles)
        /\ LastData.cleaned_count <= LastData.original_count
        /\ LastData.original_count <= Len(articles)
        /\ \A k \in 1..Len(LastData.articles) :
            LET record == LastData.articles[k]
                article == articles[C12_Nth(C12_Emitted, k)]
            IN  /\ record.original_length = Len(C12_Combined(article))
                /\ record.original_title = GetOr(article.title, Str(<< >>))
                /\ DOMAIN record
                     = { "original_id", "original_title", "original_length", "metadata" }

\* a batch with an article without text, a counted article that is not cleaned
\* and two cleaned articles of several fields
C12_Witness ==
    /\ ArticlesSucceeded
    /\ LastData.original_count < Len(articles)
    /\ LastData.cleaned_count < LastData.original_count
    /\ \E k \in 1..Len(LastData.articles) :
           Len(C12_Present(articles[C12_Nth(C12_Emitted, k)])) = 3
    /\ \E i \in C12_Emitted : articles[i].title.kind = "missing"

\* an article process_articles can work on: a mapping whose title, description
\* and content, where they are true, are strings
C13_WellFormed(article) ==
    /\ article.mapping
    /\ \A v \in { article.title, article.description, article.content } :
           Truthy(v) => v.kind = "str"

\* C13: a failure on one article (a record that is not a mapping, a field that
\* is not a string) is swallowed: process_articles returns success, and only
\* that article is excluded from the counts
C13_FailureIsolation ==
    op = "process_articles" =>
        /\ ~outcome.raised
        /\ outcome.result.success
        /\ LastData.original_count
             = Cardinality({ i \in C12_Counted : C13_WellFormed(articles[i]) })

\* C14: no pipeline operation lets an exception through to its caller
C14_NoRaise == ~outcome.raised

\* the position of a token-list item preprocess_token keeps
C15_Kept(item) == item.kind = "str" /\ preprocess_token(config, item.str) # None

\* the tokens process_live_data generates for an article
C15_Generated(article) ==
    LET t == text_to_tokenize(article)
    IN  IF t = None THEN << >> ELSE tokenize_text(t[1]).data.tokens

\* C15: process_articles returns success with articles = [] and cleaned_count =
\* 0 when no article of the batch survives cleaning; preprocess_tokens returns
\* success with tokens = [] when every token is removed; the tokenizer's
\* process_live_data returns success = false with an error and saves no file
\* when no token at all was generated for the fetched batch
C15_EmptyResultPolicy ==
    /\ ( /\ op = "process_articles"
         /\ \A i \in 1..Len(articles) : C13_WellFormed(articles[i])
         /\ C12_Emitted = {} )
       => ( /\ ~outcome.raised /\ outcome.result.success
            /\ LastData.articles = << >>
            /\ LastData.cleaned_count = 0 )
    /\ ( /\ op = "preprocess_tokens_json"
         /\ \A k \in 1..Len(tokens) : tokens[k].kind = "str" /\ ~C15_Kept(tokens[k]) )
       => ( /\ ~outcome.raised /\ outcome.result.success
            /\ LastData.tokens = << >> )
    /\ ( /\ op = "tokenizer_process_live_data"
         /\ env.response = "list"
         /\ ~outcome.raised
         /\ \A i \in 1..Len(articles) : C15_Generated(articles[i]) = << >> )
       => ( /\ ~outcome.result.success
            /\ outcome.result.error # None
            /\ outcome.written = << >> )

\* a fetched batch of articles none of which gave a token, with the disk ready
C15_Witness ==
    /\ op = "tokenizer_process_live_data"
    /\ env.response = "list" /\ env.disk_ok
    /\ Len(articles) = MaxArticles
    /\ ~outcome.raised
    /\ \A i \in 1..Len(articles) : C15_Generated(articles[i]) = << >>
    /\ outcome.result.error = Some("No tokens generated from articles")

\* C16: a ProcessingResult with success = false has a non-empty error and an
\* empty data payload, whatever was processed before the failure; one with
\* success = true has error None; so success holds iff error is None
C16_NoPartialOutput ==
    (op # "idle" /\ ~outcome.raised) =>
        LET res == outcome.result
        IN  /\ ~res.success =>
                /\ res.error # None /\ res.error[1] # ""
                /\ DOMAIN res.data = {}
                /\ outcome.written = << >>
            /\ res.success => res.error = None
            /\ res.success <=> res.error = None

\* a failure after progress: the first article was cleaned, or the first token
\* kept, before the item that raised
C16_Witness ==
    /\ ~outcome.raised /\ ~outcome.result.success
    /\ \/ /\ op = "process_articles"
          /\ Len(articles) > 1
          /\ 1 \in C12_Emitted
       \/ /\ op = "preprocess_tokens_json"
          /\ Len(tokens) > 1
          /\ C15_Kept(tokens[1])

\* C19: the tokenizer extracts the text of an article from its title,
\* description and content: with the batch fetched and the disk ready, the
\* tokens of the content of every article are in the token list returned
C19_ContentTokenized ==
    ( /\ op = "tokenizer_process_live_data"
      /\ env.response = "list" /\ env.disk_ok
      /\ \A i \in 1..Len(articles) :
            /\ articles[i].mapping
            /\ \A v \in { articles[i].title, articles[i].description,
                          articles[i].content } : v.kind \in { "str", "missing" }
      /\ \E i \in 1..Len(articles) :
            articles[i].content.kind = "str" /\ Strip(articles[i].content.str) # << >> )
    => ( /\ ~outcome.raised
         /\ outcome.result.success
         /\ \A i \in 1..Len(articles) :
              articles[i].content.kind = "str" =>
                \A t \in { tokenize_text(articles[i].content.str).data.tokens[k] :
                             k \in 1..Len(tokenize_text(articles[i].content.str).data.tokens) } :
                    \E n \in 1..Len(LastData.tokens) : LastData.tokens[n] = t )

\* the characters of s that are not white space, in order
C17_IsNonSpace(c) == ~IsSpace(c)
C17_NonSpace(s) == SelectSeq(s, C17_IsNonSpace)

\* C17: with remove_extra_whitespace the cleaner's normalize_whitespace leaves
\* no run of white space longer than one space; with preserve_sentence_structure
\* every danda, '?', '!' and ',' of the text that is not the last character is
\* followed by one space; and the step changes white space only: the characters
\* that are not white space are the same before and after, so no '?' appears
\* that the input did not hold
C17_OnlyWhitespaceChanges ==
    (op = "normalize_whitespace" /\ cleaning_config.remove_extra_whitespace) =>
        LET out == cleaned[1]
        IN  /\ \A k \in 1..Len(out) :
                IsSpace(out[k]) => out[k] = 32 /\ (k < Len(out) => ~IsSpace(out[k + 1]))
            /\ cleaning_config.preserve_sentence_structure =>
                 \A k \in 1..(Len(out) - 1) :
                    out[k] \in {2404, 63, 33, 44} => out[k + 1] = 32
            /\ C17_NonSpace(out) = C17_NonSpace(text)
            /\ Cardinality({ k \in 1..Len(out) : out[k] = 63 })
                 = Cardinality({ k \in 1..Len(text) : text[k] = 63 })

\* a plain integer of four or more digits that is not a year
C18_PlainInteger(s) ==
    /\ Len(s) >= 4
    /\ \A k \in 1..Len(s) : IsDigit(s[k])
    /\ ~YearPattern(s)

\* C18: with preserve_numbers on both sides, for a segment that is a plain
\* integer of four or more digits and not a year, the token-level
\* is_number_token returns true and the text-level is_number_context, which
\* has no catch-all integer pattern, returns false
C18_MatcherAsymmetry ==
    ( /\ op = "is_number_context"
      /\ config.preserve_numbers /\ cleaning_config.preserve_numbers
      /\ C18_PlainInteger(token) )
    => ( is_number_token(config, token) /\ ~verdict )

\* C20: with length_filtering a token that is not numeric passes
\* filter_by_length iff min_token_length <= len(token) <= max_token_length, both
\* bounds inclusive (with the defaults 1 and 50 a Devanagari token of 50
\* characters passes and one of 51 does not); a numeric token passes whatever
\* its length; without length_filtering every token passes
C20_LengthFilter ==
    op = "filter_by_length" =>
        LET numeric == config.preserve_numbers /\ C3_Numeric(Strip(token))
        IN  /\ ~config.length_filtering => verdict
            /\ (config.length_filtering /\ numeric) => verdict
            /\ (config.length_filtering /\ ~numeric) =>
                 (verdict <=> ( /\ config.min_token_length <= Len(token)
                                /\ Len(token) <= config.max_token_length ))
            /\ config = default_preprocessing_config =>
                 /\ token = Tok_Long50 => verdict
                 /\ token = Tok_Long51 => ~verdict
                 /\ token = Tok_Digits51 => verdict

\* the Devanagari token of 51 characters is rejected under the defaults
C20_Witness ==
    /\ op = "filter_by_length"
    /\ config = default_preprocessing_config
    /\ token = Tok_Long51
    /\ \A k \in 1..Len(token) : IsDevanagari(token[k])
    /\ ~verdict

\* whether the string s has no white space at either end
Trimmed(s) == s = Strip(s)

\* C21 (refuted by the code): under every configuration, remove_whitespace
\* disabled included, a token that preprocess_token returns has no leading and
\* no trailing white space
C21_ReturnedTrimmed ==
    (op = "preprocess_token" /\ token_out # None) => Trimmed(token_out[1])

\* the end of the run of the character s[i] that starts at position i
SpanSame(s, i) ==
    IF i > Len(s) THEN i
    ELSE CHOOSE j \in i..(Len(s) + 1) :
            /\ j > Len(s) \/ s[j] # s[i]
            /\ \A k \in i..(j - 1) : s[k] = s[i]

\* every run of three or more of one sentence terminator cut to two of it
RECURSIVE C22_CollapseRepeated(_, _)
C22_CollapseRepeated(s, i) ==
    LET starts == { j \in i..Len(s) : IsTerminator(s[j]) /\ SpanSame(s, j) - j >= 3 }
    IN  IF starts = {} THEN Slice(s, i, Len(s))
        ELSE Slice(s, i, Min(starts) - 1) \o << s[Min(starts)], s[Min(starts)] >>
             \o C22_CollapseRepeated(s, SpanSame(s, Min(starts)))

\* every run of three or more characters that are neither word characters,
\* white space nor Devanagari removed
RECURSIVE C22_RemoveSymbolRuns(_, _)
C22_RemoveSymbolRuns(s, i) ==
    LET starts == { j \in i..Len(s) : SpanSpecial(s, j) - j >= 3 }
    IN  IF starts = {} THEN Slice(s, i, Len(s))
        ELSE Slice(s, i, Min(starts) - 1)
             \o C22_RemoveSymbolRuns(s, SpanSpecial(s, Min(starts)))

C22_Standardized(cfg, t) ==
    IF ~cfg.standardize_punctuation THEN t
    ELSE LET single == ReplaceChar(t, 2405, << 2404 >>)
         IN  IF cfg.remove_excessive_punctuation
             THEN C22_RemoveSymbolRuns(C22_CollapseRepeated(single, 1), 1)
             ELSE single

\* C22 (refuted by the code): with standardize_punctuation the cleaner maps
\* every double danda to a danda; with remove_excessive_punctuation as well,
\* every run of three or more of one sentence terminator (danda . ! ?) becomes
\* two of that terminator, every run of three or more characters that are
\* neither word characters, white space nor Devanagari is removed, and runs of
\* one or two are left as they are
C22_PunctuationStandardized ==
    op = "standardize_punctuation"
        => cleaned = Some(C22_Standardized(cleaning_config, text))

\* a token whose only characters of the Devanagari block are dandas
C24_DandaOnly(t) ==
    /\ \E k \in 1..Len(t) : t[k] \in {2404, 2405}
    /\ \A k \in 1..Len(t) : IsDevanagari(t[k]) => t[k] \in {2404, 2405}

\* the token as it stands after Phase 1 of preprocess_token
C24_AfterPhase1(cfg, t) ==
    standardize_punctuation(cfg, normalize_whitespace(cfg, normalize_unicode(cfg, t)))

C24_PunctuationKept == [default_preprocessing_config EXCEPT !.standardize_punctuation = FALSE]

\* C24 as stated: under the default configuration every token whose only
\* Devanagari characters are dandas has them replaced by '.' and is then
\* rejected by the language filter; the language filter admits the same token
\* when standardize_punctuation is disabled
C24_DandaRejected ==
    (op = "preprocess_token" /\ C24_DandaOnly(token)) =>
        /\ config = default_preprocessing_config =>
             /\ ~filter_by_language(config, C24_AfterPhase1(config, token))
             /\ token_out = None
        /\ config = C24_PunctuationKept =>
             filter_by_language(config, C24_AfterPhase1(config, token))

\* C24: preprocess_token applies the language test to the token as it stands
\* after the punctuation standardization of Phase 1, so with language_filtering
\* a returned token passed the test in its standardized form.  Under the
\* default configuration a token whose only Devanagari characters are dandas
\* has them replaced by '.'; unless the standardized token is numeric (5।5
\* becomes 5.5 and is returned) the language filter rejects it and the result
\* is absent, although the filter admits the token as it was passed.  With
\* standardize_punctuation disabled the language filter admits the token.
C24_PhaseOrdering ==
    op = "preprocess_token" =>
        LET t1 == C24_AfterPhase1(config, token)
        IN  /\ (config.language_filtering /\ token_out # None)
                 => filter_by_language(config, t1)
            /\ (C24_DandaOnly(token) /\ config = default_preprocessing_config) =>
                 /\ \A k \in 1..Len(t1) : t1[k] \notin {2404, 2405}
                 /\ filter_by_language(config, token)
                 /\ IF is_number_token(config, t1)
                    THEN token_out = Some(t1)
                    ELSE ~filter_by_language(config, t1) /\ token_out = None
            /\ (C24_DandaOnly(token) /\ config = C24_PunctuationKept) =>
                 /\ filter_by_language(config, t1)
                 /\ token_out = None =>
                      \/ remove_noise(config, t1) = None
                      \/ ~filter_by_length(config, t1)

\* the danda alone is rejected under the default configuration, where the
\* language filter admits it as passed and rejects it as standardized
C24_Witness ==
    /\ op = "preprocess_token" /\ token = << 2404 >>
    /\ config = default_preprocessing_config
    /\ filter_by_language(config, token)
    /\ ~filter_by_language(config, C24_AfterPhase1(config, token))
    /\ token_out = None

\* C23 (refuted by the code): in every successful preprocess_tokens result
\* original_count is the length of the input, processed_count the length of
\* the tokens returned and removed_count their difference, so that every input
\* token is either returned or counted as removed, the tokens dropped as
\* duplicates included; removed_count agrees with the removed_token_count that
\* process_json_file writes for the same tokens
C23_CountsPartition ==
    /\ (op = "preprocess_tokens_with" /\ outcome.result.success) =>
          /\ outcome.result.data.original_count = Len(tokens)
          /\ outcome.result.data.processed_count = Len(outcome.result.data.tokens)
          /\ outcome.result.data.removed_count =
                outcome.result.data.original_count - outcome.result.data.processed_count
    /\ (op = "process_json_file" /\ outcome.result.success) =>
          outcome.written[1].removed_token_count =
              preprocess_tokens_with(config, files[1].tokens).data.removed_count

\* C25 (refuted by the code): a preprocessor built from a mapping that holds
\* only some of the options (the 'preprocessing' section main.py passes, with
\* preserve_numbers, auto_clean or remove_stopwords set by the command line)
\* has the default of every option the mapping lacks, and preprocess_tokens
\* returns success on every list of string tokens
C25_PartialConfigFallsBack ==
    /\ PreprocessingOptions \subseteq DOMAIN config
    /\ op = "preprocess_tokens_with" => outcome.result.success

\* C30 (refuted by the code): no token mode divides by zero; when the original
\* token count is 0 (a file whose 'tokens' list is empty) the rate is 0 or
\* none is computed, and run_preprocessing_only, the batch mode and
\* run_single_processing (once the tokenizer has returned) return their
\* ProcessingResult
C30_RetentionNeverRaises ==
    /\ op \in { "run_preprocessing_only", "run_preprocessing_only_batch" }
          => ~outcome.raised
    /\ ( /\ op = "run_single_processing"
         /\ ~tokenizer_process_live_data([kind |-> env.response, items |-> articles],
                                         env.disk_ok).raised )
          => ~outcome.raised
    /\ ( /\ op = "run_preprocessing_only" /\ files[1] = TokenFile(<< >>)
         /\ PreprocessingOptions \subseteq DOMAIN config /\ env.disk_ok )
          => outcome.result.success

\* what process_live_data must return for the results of its three stages
C29_Staged(fetched, processed, saved) ==
    /\ ~outcome.raised
    /\ ~fetched.success => (outcome.result = fetched /\ outcome.written = << >>)
    /\ (fetched.success /\ ~processed.success)
          => (outcome.result = processed /\ outcome.written = << >>)
    /\ (fetched.success /\ processed.success /\ ~saved.success)
          => (outcome.result = saved /\ outcome.written = << >>)
    /\ outcome.result.success
          <=> (fetched.success /\ processed.success /\ saved.success)
    /\ outcome.result.success =>
          /\ outcome.result.data.articles_fetched = Len(articles)
          /\ outcome.result.data.articles_cleaned = processed.data.cleaned_count
          /\ outcome.result.data.articles_cleaned <= outcome.result.data.articles_fetched
          /\ outcome.result.data.filepath = saved.data.filepath
          /\ outcome.written = << processed.data.articles >>

\* C29: NepaliTextCleaner.process_live_data runs fetch, process_articles and
\* save_cleaned_data in that order and returns the failed result of the first
\* stage that fails, with nothing saved after a failed fetch or a failed
\* processing; it returns success only if the three stages succeeded, and then
\* articles_fetched is the number of fetched articles, articles_cleaned is
\* cleaned_count <= articles_fetched and filepath is the file saved
C29_StagedPipeline ==
    op = "cleaner_process_live_data" =>
        C29_Staged(fetch_live_articles([kind |-> env.response, items |-> articles]),
                   process_articles(cleaning_config, articles),
                   save_cleaned_data(env.disk_ok))

\* a fetched batch whose processing fails, with the disk ready: the failure of
\* process_articles is returned and nothing is saved
C29_Witness ==
    /\ op = "cleaner_process_live_data"
    /\ env = [response |-> "list", disk_ok |-> TRUE]
    /\ ~process_articles(cleaning_config, articles).success
    /\ outcome = Returned(Failure("Error processing articles"), << >>)


\* the call of continuous_monitoring under way has a bound N >= 1 and no interrupt
C26_Bounded ==
    /\ monitor.pc # "none"
    /\ monitor.who = "tokenizer"
    /\ monitor.max_iterations # None
    /\ monitor.max_iterations[1] >= 1
    /\ ~monitor.interrupted

\* the summary of N cycles of which `succeeded` returned success
C26_Summary(N, succeeded) ==
    Returned(Success([ total_iterations |-> N,
                       successful_iterations |-> succeeded,
                       success_rate |-> [num |-> succeeded * 100, den |-> N] ]), << >>)

\* the sleeps lie between the cycles: the k-th sleep follows the k-th cycle, k < N
C26_SleepsBetweenCycles ==
    (C26_Bounded /\ monitor.pc = "sleep") =>
        /\ monitor.sleeps = monitor.completed
        /\ monitor.calls = monitor.completed
        /\ monitor.sleeps >= 1
        /\ monitor.sleeps < monitor.max_iterations[1]

\* the cycles follow one another: at most one call of process_live_data is open
C26_OneAfterAnother ==
    C26_Bounded =>
        /\ monitor.calls - monitor.completed \in { 0, 1 }
        /\ (monitor.pc = "in_cycle" <=> monitor.calls = monitor.completed + 1)
           \/ monitor.process_result = "raised"

\* C26: continuous_monitoring with max_iterations = N >= 1 and no interrupt
\* calls process_live_data exactly N times one after another, sleeps exactly
\* N-1 times, each time between two cycles, and returns success with
\* total_iterations = N, successful_iterations = the number of cycles that
\* returned success and success_rate = successful_iterations / N * 100; a
\* cycle that fails does not stop the loop.
C26_BoundedMonitoring ==
    /\ C26_SleepsBetweenCycles
    /\ C26_OneAfterAnother
    /\ (C26_Bounded /\ monitor.pc = "done") =>
          /\ monitor.calls = monitor.max_iterations[1]
          /\ monitor.sleeps = monitor.max_iterations[1] - 1
          /\ monitor.succeeded \in 0..monitor.max_iterations[1]
          /\ outcome = C26_Summary(monitor.max_iterations[1], monitor.succeeded)

\* the same statement for the calls in which no cycle raised an exception
C26_WhenNoCycleRaises ==
    monitor.pc # "none" /\ monitor.process_result # "raised" => C26_BoundedMonitoring

\* a call with N = 2 that ended after a failed first cycle and a successful second
C26_FailedCycleSeen ==
    /\ C26_Bounded /\ monitor.pc = "done"
    /\ monitor.max_iterations = Some(2)
    /\ monitor.succeeded = 1 /\ monitor.completed = 2
    /\ monitor.process_result = "success"


\* a call of either monitoring loop with an integer bound has started
C27_BoundedCall == monitor.pc = "start" /\ monitor.max_iterations # None

\* the call under way has made more cycles than its bound allows
C27_TooManyCycles ==
    /\ monitor.pc # "none"
    /\ monitor.max_iterations # None
    /\ monitor.calls > monitor.max_iterations[1]

\* every call with an integer bound returns or raises
C27_Terminates == C27_BoundedCall ~> (monitor.pc = "done")

\* C27: for every integer max_iterations >= 0, 0 included, continuous_monitoring
\* and run_continuous_monitoring make at most max_iterations cycles and then
\* terminate; only max_iterations = None runs for ever.
C27_BoundedTerminates ==
    /\ [](~C27_TooManyCycles)
    /\ C27_Terminates

\* the same statement for the bounds N >= 1
C27_PositiveBoundTerminates ==
    /\ [](C27_TooManyCycles => monitor.max_iterations[1] = 0)
    /\ (C27_BoundedCall /\ monitor.max_iterations[1] >= 1) ~> (monitor.pc = "done")


\* continuous_monitoring ended by a KeyboardInterrupt
C28_Interrupted ==
    monitor.pc = "done" /\ monitor.who = "tokenizer" /\ monitor.interrupted

\* the result the claim describes: stopped by the user, every cycle counted
\* that ended before the interrupt, no more successes than cycles
C28_StoppedResult ==
    /\ ~outcome.raised
    /\ outcome.result.success
    /\ DOMAIN outcome.result.data =
         { "total_iterations", "successful_iterations", "stopped_by_user" }
    /\ outcome.result.data.stopped_by_user
    /\ outcome.result.data.total_iterations \in
         { monitor.completed, monitor.completed - 1 }
    /\ (monitor.at \in { "in_cycle", "sleep" } =>
          outcome.result.data.total_iterations = monitor.completed)
    /\ outcome.result.data.successful_iterations <= outcome.result.data.total_iterations

\* C28: a KeyboardInterrupt at any point of continuous_monitoring stops the
\* loop before another cycle starts, and the call returns success with
\* stopped_by_user, total_iterations = the number of cycles completed before
\* the interrupt, and successful_iterations <= total_iterations.
C28_InterruptStops == C28_Interrupted => C28_StoppedResult

\* the same statement for an interrupt during process_live_data or during the sleep
C28_DuringCycleOrSleep ==
    (C28_Interrupted /\ monitor.at \in { "in_cycle", "sleep" }) => C28_StoppedResult


\* the same statement for an interrupt anywhere inside the try block
C28_InsideTry == (C28_Interrupted /\ monitor.at \in InsideTry) => C28_StoppedResult

====
